---- MODULE Spec2Model ----
(***************************************************************************)
(* The dual-store write pipeline of the News scrapers.                     *)
(*                                                                         *)
(* Scraper processes (DuckDuckGoApiNews, GNewsApiNews, WebSitesNews) build *)
(* a batch of articles and hand it to db_utils.save_articles_to_all_dbs,   *)
(* which asks both stores which URLs exist, drops those, upserts the rest  *)
(* into the MongoDB collection News.News and inserts them into the         *)
(* ClickHouse table news.news.  Every client call on a store is one step   *)
(* of the model, so that calls of concurrent scraper processes interleave. *)
(*                                                                         *)
(* Around the pipeline: the orchestrator main.py (start_script,            *)
(* stop_script, status polling over processes.json, on_the_fly_search),    *)
(* the topics and sources registries (topics.py, sources_utils.py), the    *)
(* __main__ block of the scraper scripts, and migrate_to_clickhouse.py.    *)
(* Each part has its own variables and its own specifications.             *)
(***************************************************************************)
EXTENDS Integers, Sequences, FiniteSets, TLC

\* ------------------------------------------------------------------ bounds
MaxResults == 2      \* longest list of raw results one scraper run collects
MaxRows == 2         \* most rows of one URL the ClickHouse table is let grow to
MaxFaults == 1       \* store failures the environment injects when failures are transient
MaxRuns == 2         \* calls of save_articles_to_all_dbs one process makes
MaxProbes == 1       \* availability probe rows the ClickHouse table is let keep

\* --------------------------------------------------------- program constants
retry_attempts == 3
batch_size == 1000
chunk_size == 1000

\* ------------------------------------------------------------------ domains
Procs == {"p1", "p2"}
URLs == {"u1", "u2"}
Dates == {1, 2}
BloombergText == "Connecting decision makers to a dynamic network of information"
Bodies == {"body", BloombergText}
Article == [url : URLs, date : Dates, body : Bodies]
Scripts == {"DuckDuckGoApiNews", "GNewsApiNews", "WebSitesNews"}
Unset == "<unset>"
EnvValues == {Unset, "true", "TRUE", "false"}
ProbeUrl == "test://availability_check/"
Outcomes == {"ok", "raise"}

VARIABLES
    mongo,          \* collection News.News: url -> documents with that url, oldest first
    ch,             \* table news.news: url -> number of rows with that url
    probes,         \* rows 'test://availability_check/...' left in news.news
    pc,             \* per scraper process: where it is in save_articles_to_all_dbs
    script,         \* per process: the scraper script it runs
    args,           \* per process: its command line flags
    environ,        \* per process: os.environ['USE_CLICKHOUSE']
    articles,       \* per process: the argument of the current call
    df,             \* per process: the DataFrame being saved
    existing_urls,  \* per process: what check_urls_exist returned
    k,              \* per process: index of the next bulk operation / batch offset
    attempt,        \* per process: retry loop counter of the current batch
    counts,         \* per process: upserted, modified, mongo_count, total_inserted
    result,         \* per process: the summary returned by the last call
    io,             \* per process: the client calls the current call issued
    runs,           \* per process: calls of save_articles_to_all_dbs made so far
    outages         \* failures the environment may still inject; -1: any number

\* the orchestrator main.py and the scraper processes it manages
VARIABLES
    processes_json, \* processes.json: script name -> the PID recorded for it
    status_json,    \* status.json: script name -> the state update_status wrote
    alive,          \* PIDs of the scraper processes that are running
    launched,       \* the script each subprocess.Popen of start_script ran; PID = index
    opc,            \* per orchestrator invocation: where it is in its command
    ocall,          \* per invocation: the command and the script it is about
    oprocesses,     \* per invocation: the dictionary load_process_info returned
    oret,           \* per invocation: what the command returned
    osignals,       \* per invocation: the signals the command sent, in order
    ostatus,        \* per invocation: the status dictionary of the last polling
    osnap           \* per invocation: processes.json and launched when the command began

\* the topics registry (topics.py) and the on-the-fly search of main.py
VARIABLES
    topics,         \* collection News.Topics: its documents, in insertion order
    queries,        \* legacy collection News.Queries: the values of Query
    tret,           \* what the last call of add_topic returned
    fly             \* on_the_fly_search: where it is, what it saw and returned

\* the sources registry (sources_utils.py)
VARIABLES
    sources,        \* collection News.NewsSources: its documents, in insertion order
    sources_meta,   \* whether the collection exists and has its unique index
    scall,          \* the last call on the registry: function, site, RSS
    sret,           \* what that call returned
    ssnap           \* the documents of the collection when that call began

\* one run of a scraper script from its command line to its exit
VARIABLES
    largv,          \* the script and the flags on its command line
    lenv,           \* os.environ: TEST_MODE, QUERY, NO_WAIT
    largs,          \* args after the environment was merged in
    lpc,            \* where the script is in its __main__ block
    lresults,       \* what the calls of main returned, in order
    exit_status,    \* the argument of sys.exit, -1 while the script runs
    exit_cause      \* what made the script exit

\* the migration script migrate_to_clickhouse.py
VARIABLES
    schema,         \* ClickHouse: whether database news and table news.news exist
    mig             \* migrate_articles: its arguments, position, statistics

\* save_articles_to_clickhouse called with arguments of its own, and main()
\* of the two search scrapers
VARIABLES
    sv,             \* save_articles_to_clickhouse: arguments, locals, position
    run             \* main(): topics, position in the loops, what was searched and saved

pipeline == <<mongo, ch, probes, pc, script, args, environ, articles, df,
              existing_urls, k, attempt, counts, result, io, runs, outages>>
orch == <<processes_json, status_json, alive, launched, opc, ocall,
          oprocesses, oret, osignals, ostatus, osnap>>
topics_registry == <<topics, queries, tret, fly>>
sources_registry == <<sources, sources_meta, scall, sret, ssnap>>
lifecycle == <<largv, lenv, largs, lpc, lresults, exit_status, exit_cause>>
migration == <<schema, mig>>
clickhouse_call == <<sv>>
scraper_main == <<run>>
beyond_pipeline == <<orch, topics_registry, sources_registry, lifecycle, migration,
    clickhouse_call, scraper_main>>
beyond_orch == <<pipeline, topics_registry, sources_registry, lifecycle, migration,
    clickhouse_call, scraper_main>>
beyond_topics == <<pipeline, orch, sources_registry, lifecycle, migration,
    clickhouse_call, scraper_main>>
beyond_sources == <<pipeline, orch, topics_registry, lifecycle, migration,
    clickhouse_call, scraper_main>>
beyond_lifecycle == <<pipeline, orch, topics_registry, sources_registry, migration,
    clickhouse_call, scraper_main>>
beyond_migration == <<probes, pc, script, args, environ, articles, df, existing_urls,
                      k, attempt, counts, result, io, runs, outages,
                      orch, topics_registry, sources_registry, lifecycle,
                      clickhouse_call, scraper_main>>
beyond_clickhouse_call == <<mongo, pc, script, args, environ, articles, df,
                            existing_urls, k, attempt, counts, result, io, runs,
                            outages, orch, topics_registry, sources_registry,
                            lifecycle, migration, scraper_main>>
beyond_scraper_main == <<orch, topics_registry, sources_registry, lifecycle,
                         migration, clickhouse_call>>

vars == <<pipeline, beyond_pipeline>>

stores == <<mongo, ch, probes>>
config == <<script, args, environ>>

\* ------------------------------------------------------- sequence helpers
RECURSIVE SeqToSet(_)
SeqToSet(s) == IF s = <<>> THEN {} ELSE {Head(s)} \cup SeqToSet(Tail(s))

SeqsUpTo(S, n) == UNION {[1..m -> S] : m \in 0..n}

UrlsOf(d) == {d[j].url : j \in DOMAIN d}

\* df['url'].tolist() keeps repeats; NoDuplicateUrls says there are none
NoDuplicateUrls(d) == \A i, j \in DOMAIN d : d[i].url = d[j].url => i = j

\* ---------------------------------------------------- pandas, as used here
\* DataFrame.sort_values(by='date'): rows in date order, ties in input order
RECURSIVE sort_values(_, _)
sort_values(d, ascending) ==
    IF d = <<>> THEN <<>>
    ELSE LET n == Len(d)
             x == d[n]
             s == sort_values(SubSeq(d, 1, n - 1), ascending)
             Before(y) == IF ascending THEN y.date <= x.date ELSE y.date >= x.date
             m == Cardinality({j \in DOMAIN s : Before(s[j])})
         IN  SubSeq(s, 1, m) \o <<x>> \o SubSeq(s, m + 1, Len(s))

\* the rows of d whose index is in keep, in order
Rows(d, keep) ==
    LET F[j \in 0..Len(d)] ==
            IF j = 0 THEN <<>>
            ELSE IF j \in keep THEN Append(F[j - 1], d[j]) ELSE F[j - 1]
    IN  F[Len(d)]

\* DataFrame.drop_duplicates(subset=cols, keep='first')
drop_duplicates(d, cols) ==
    Rows(d, {j \in DOMAIN d :
                \A i \in 1..(j - 1) : \E c \in cols : d[i][c] # d[j][c]})

\* Series.str.contains(text): the only body holding the connector text is
\* BloombergText itself, of which the GNews needle is a prefix
str_contains(body, text) == body = BloombergText /\ text \in
    {BloombergText, "Connecting decision makers to a dynamic network"}

\* ------------------------------------------------------ scraper scripts
\* a Python value that is either None or a list / DataFrame of rows
NoneValue == [none |-> TRUE, rows |-> <<>>]

Frame(rows) == [none |-> FALSE, rows |-> rows]

\* DuckDuckGoApiNews.process_articles / GNewsApiNews.process_articles
process_articles(raw, text) ==
    IF raw = <<>> THEN NoneValue
    ELSE LET results_df == drop_duplicates(sort_values(raw, FALSE), {"url", "date", "body"})
             deduped == drop_duplicates(results_df, {"url"})
             news == sort_values(deduped, TRUE)
         IN  Frame(Rows(news, {j \in DOMAIN news : ~str_contains(news[j].body, text)}))

\* what main() of each script hands to save_articles_to_all_dbs; NoneValue
\* when it makes no call
Batch(s, raw) ==
    CASE s = "DuckDuckGoApiNews" ->
            LET news_df == process_articles(raw, BloombergText)
            IN  IF news_df.none \/ news_df.rows = <<>> THEN NoneValue ELSE news_df
      [] s = "GNewsApiNews" ->
            LET news_df == process_articles(raw, "Connecting decision makers to a dynamic network")
            IN  IF news_df.none \/ news_df.rows = <<>> THEN NoneValue ELSE news_df
      [] s = "WebSitesNews" ->
            IF raw = <<>> THEN NoneValue ELSE Frame(raw)

\* ---------------------------------------------------------- configuration
\* str.lower() on the values USE_CLICKHOUSE takes here
lower(v) == IF v = "TRUE" THEN "true" ELSE v

\* os.environ.get(name, default)
environ_get(p, default) == IF environ[p] = Unset THEN default ELSE environ[p]

use_ch_whatever_the_environment(p) == TRUE

use_ch(p) == lower(environ_get(p, "true")) = "true"

CLICKHOUSE_AVAILABLE == TRUE

use_mongodb(p) == ~args[p].no_mongodb

use_clickhouse_whatever_the_flag(p) == TRUE

use_clickhouse(p) == ~args[p].no_clickhouse

check_across_dbs == TRUE

\* ------------------------------------------------------------ environment
\* a client call returns ("ok") or raises ("raise"); raising uses up one of
\* the failures the environment may still inject
Environment(o) ==
    IF o = "ok" THEN UNCHANGED outages
    ELSE /\ outages # 0
         /\ outages' = IF outages < 0 THEN outages ELSE outages - 1

Event(store, op, ok, urls, batch) ==
    [store |-> store, op |-> op, ok |-> ok, urls |-> urls, batch |-> batch]

NoCounts == [upserted |-> 0, modified |-> 0, mongo_count |-> 0,
             total_inserted |-> 0, clickhouse_count |-> 0]

summary_counting_mongodb_only(m, c) == [mongodb |-> m, clickhouse |-> c, total |-> m]

\* the dictionary save_articles_to_all_dbs returns
Summary(m, c) == [mongodb |-> m, clickhouse |-> c, total |-> m + c]

\* ------------------------------------------------------------------ stores
\* the document an UpdateOne({'url': a.url}, {'$set': a}, upsert=True) leaves
Doc(a) == [date |-> a.date, body |-> a.body]

set_on_insert_only(docs, a) == docs

\* UpdateOne on a url that matches: $set overwrites the first matching document
update_one(docs, a) == [docs EXCEPT ![1] = Doc(a)]

\* rows of d with the given url
RowCount(d, u) == Cardinality({j \in DOMAIN d : d[j].url = u})

Min(a, b) == IF a < b THEN a ELSE b

\* --------------------------------------------- save_articles_to_all_dbs
keep_all_rows(d, ex) == d

\* df[~df['url'].isin(existing_urls)]
filter_existing(d, ex) == Rows(d, {j \in DOMAIN d : d[j].url \notin ex})

Log(p, e) == io' = [io EXCEPT ![p] = Append(@, e)]

Return(p, m, c) ==
    /\ result' = [result EXCEPT ![p] = Summary(m, c)]
    /\ pc' = [pc EXCEPT ![p] = "returned"]

\* where the call goes once the existence check is done: the MongoDB save if
\* MongoDB is in use, else the ClickHouse save
after_check(p) == IF use_mongodb(p) THEN "bulk_write" ELSE "save_clickhouse"

\* the call starts: conversion to a DataFrame, counters, the empty case
Enter(p, a) ==
    /\ pc[p] \in {"idle", "returned"}
    /\ articles' = [articles EXCEPT ![p] = a]
    /\ existing_urls' = [existing_urls EXCEPT ![p] = {}]
    /\ attempt' = [attempt EXCEPT ![p] = 0]
    /\ counts' = [counts EXCEPT ![p] = NoCounts]
    /\ io' = [io EXCEPT ![p] = <<>>]
    /\ result' = [result EXCEPT ![p] = Summary(0, 0)]
    /\ df' = [df EXCEPT ![p] = a.rows]
    /\ k' = [k EXCEPT ![p] = 1]
    /\ pc' = [pc EXCEPT ![p] =
                IF a.none \/ a.rows = <<>> THEN "returned"
                ELSE IF check_across_dbs THEN "check_mongo" ELSE after_check(p)]

\* the model follows each process for MaxRuns calls
Counted(p) ==
    /\ runs[p] < MaxRuns
    /\ runs' = [runs EXCEPT ![p] = @ + 1]

\* one run of a scraper's main() that reaches the save
ScraperRun(p, RawLists) ==
    /\ pc[p] \in {"idle", "returned"}
    /\ \E raw \in RawLists :
          LET b == Batch(script[p], raw) IN ~b.none /\ Enter(p, b)
    /\ UNCHANGED <<stores, config, outages>>

\* the helper called with nothing to save: None or an empty list
DirectCall(p) ==
    /\ pc[p] \in {"idle", "returned"}
    /\ \E a \in {NoneValue, Frame(<<>>)} : Enter(p, a)
    /\ UNCHANGED <<stores, config, outages>>

\* check_urls_exist, the MongoDB query
CheckMongo(p, o) ==
    /\ pc[p] = "check_mongo"
    /\ IF use_mongodb(p)
       THEN /\ Environment(o)
            /\ existing_urls' = [existing_urls EXCEPT ![p] =
                  IF o = "ok" THEN {u \in UrlsOf(df[p]) : mongo[u] # <<>>} ELSE {}]
            /\ Log(p, Event("mongodb", "find", o = "ok", UrlsOf(df[p]), 0))
       ELSE /\ o = "ok"
            /\ UNCHANGED <<outages, existing_urls, io>>
    /\ pc' = [pc EXCEPT ![p] = "check_clickhouse"]
    /\ UNCHANGED <<stores, config, articles, df, k, attempt, counts, result, runs>>

\* check_urls_exist, the ClickHouse query (one chunk: batches are shorter
\* than chunk_size), then the filter of save_articles_to_all_dbs
CheckClickhouse(p, o) ==
    /\ pc[p] = "check_clickhouse"
    /\ Len(df[p]) <= chunk_size
    /\ LET asked == use_clickhouse(p) /\ CLICKHOUSE_AVAILABLE /\ use_ch(p)
           ch_urls == IF asked /\ o = "ok"
                      THEN {u \in UrlsOf(df[p]) : ch[u] > 0} ELSE {}
           ex == existing_urls[p] \cup ch_urls
           kept == IF ex # {} THEN filter_existing(df[p], ex) ELSE df[p]
       IN  /\ IF asked
              THEN /\ Environment(o)
                   /\ Log(p, Event("clickhouse", "select", o = "ok", UrlsOf(df[p]), 0))
              ELSE /\ o = "ok"
                   /\ UNCHANGED <<outages, io>>
           /\ existing_urls' = [existing_urls EXCEPT ![p] = ex]
           /\ df' = [df EXCEPT ![p] = kept]
           /\ IF kept = <<>>
              THEN Return(p, 0, 0)
              ELSE /\ pc' = [pc EXCEPT ![p] = after_check(p)]
                   /\ UNCHANGED result
    /\ UNCHANGED <<stores, config, articles, k, attempt, counts, runs>>

\* where the call goes when bulk_write raises: the except clause logs the
\* error and the ClickHouse save follows
retry_bulk_write(p) == "bulk_write"

abort_after_bulk_write_error(p) == "returned"

after_bulk_write_error(p) == "save_clickhouse"

\* the bulk write is over: the exception, or the last operation's result
BulkWriteRaises(p) ==
    /\ Environment("raise")
    /\ Log(p, Event("mongodb", "bulk_write", FALSE, UrlsOf(df[p]), 0))
    /\ pc' = [pc EXCEPT ![p] = after_bulk_write_error(p)]
    /\ k' = [k EXCEPT ![p] = 1]
    /\ counts' = [counts EXCEPT ![p] = [@ EXCEPT !.upserted = 0, !.modified = 0]]
    /\ UNCHANGED <<stores, config, articles, df, existing_urls, attempt, result, runs>>

Advance(p, c) ==
    IF k[p] = Len(df[p])
    THEN /\ counts' = [counts EXCEPT ![p] =
                          [c EXCEPT !.mongo_count = c.upserted + c.modified]]
         /\ Log(p, Event("mongodb", "bulk_write", TRUE, UrlsOf(df[p]), 0))
         /\ pc' = [pc EXCEPT ![p] = "save_clickhouse"]
         /\ k' = [k EXCEPT ![p] = 1]
    ELSE /\ counts' = [counts EXCEPT ![p] = c]
         /\ k' = [k EXCEPT ![p] = @ + 1]
         /\ pc' = [pc EXCEPT ![p] = "bulk_write"]
         /\ UNCHANGED io

\* save_articles_to_db: the server takes the next UpdateOne of the ordered
\* bulk write and evaluates its filter; a match is updated at once
BulkWrite(p, o) ==
    /\ pc[p] = "bulk_write"
    /\ LET a == df[p][k[p]]
           u == a.url
       IN  IF o = "raise" THEN BulkWriteRaises(p)
           ELSE /\ UNCHANGED <<outages, ch, probes, config, articles, df,
                               existing_urls, attempt, result, runs>>
                /\ IF mongo[u] # <<>>
                   THEN /\ mongo' = [mongo EXCEPT ![u] = update_one(@, a)]
                        /\ Advance(p, [counts[p] EXCEPT !.modified =
                              @ + (IF mongo[u][1] # Doc(a) THEN 1 ELSE 0)])
                   ELSE /\ pc' = [pc EXCEPT ![p] = "upsert_insert"]
                        /\ UNCHANGED <<mongo, counts, k, io>>

\* the filter matched nothing: the upsert inserts a new document.  No unique
\* index on url exists, so nothing makes the server repeat the filter first
UpsertInsert(p, o) ==
    /\ pc[p] = "upsert_insert"
    /\ LET a == df[p][k[p]]
       IN  IF o = "raise" THEN BulkWriteRaises(p)
           ELSE /\ UNCHANGED <<outages, ch, probes, config, articles, df,
                               existing_urls, attempt, result, runs>>
                /\ mongo' = [mongo EXCEPT ![a.url] = Append(@, Doc(a))]
                /\ Advance(p, [counts[p] EXCEPT !.upserted = @ + 1])

\* ------------------------------------------- save_articles_to_clickhouse
\* dedup_by_url as save_articles_to_all_dbs passes it
dedup_in_clickhouse == ~check_across_dbs

\* create_news_table_if_not_exists, then check_table_availability: the probe
\* row is inserted and deleted again.  "raise": a statement up to the probe
\* insert fails; "probe_left": the probe insert succeeds and the delete fails
SaveClickhouse(p, o) ==
    /\ pc[p] = "save_clickhouse"
    /\ UNCHANGED <<mongo, ch, config, articles, df, existing_urls, counts, runs>>
    /\ IF use_clickhouse(p) /\ CLICKHOUSE_AVAILABLE /\ use_ch(p) /\ df[p] # <<>>
       THEN CASE o = "ok" ->
                   /\ Environment("ok")
                   /\ Log(p, Event("clickhouse", "probe", TRUE, {ProbeUrl}, 0))
                   /\ pc' = [pc EXCEPT ![p] = "insert_batch"]
                   /\ k' = [k EXCEPT ![p] = 0]
                   /\ attempt' = [attempt EXCEPT ![p] = 0]
                   /\ UNCHANGED <<probes, result>>
              [] o = "raise" ->
                   /\ Environment("raise")
                   /\ Log(p, Event("clickhouse", "probe", FALSE, {ProbeUrl}, 0))
                   /\ Return(p, counts[p].mongo_count, 0)
                   /\ UNCHANGED <<probes, k, attempt>>
              [] o = "probe_left" ->
                   /\ Environment("raise")
                   /\ probes < MaxProbes
                   /\ probes' = probes + 1
                   /\ Log(p, Event("clickhouse", "probe", FALSE, {ProbeUrl}, 0))
                   /\ Return(p, counts[p].mongo_count, 0)
                   /\ UNCHANGED <<k, attempt>>
       ELSE /\ o = "ok"
            /\ Return(p, counts[p].mongo_count, 0)
            /\ UNCHANGED <<outages, probes, io, k, attempt>>

never_break(o, att) ==
    IF att = retry_attempts - 1 THEN "next_batch" ELSE "retry"

\* the retry loop of one batch: break on success, give the batch up after
\* the last attempt, else try again
loop_after(o, att) ==
    IF o = "ok" THEN "next_batch"
    ELSE IF att = retry_attempts - 1 THEN "next_batch" ELSE "retry"

\* one client.execute(INSERT ...) of the batch at offset k
InsertBatch(p, o) ==
    /\ pc[p] = "insert_batch"
    /\ Environment(o)
    /\ LET rows == SubSeq(df[p], k[p] + 1, Min(k[p] + batch_size, Len(df[p])))
           c == IF o = "ok"
                THEN [counts[p] EXCEPT !.total_inserted = @ + Len(rows)]
                ELSE counts[p]
       IN  /\ IF o = "ok"
              THEN /\ \A u \in URLs : ch[u] + RowCount(rows, u) <= MaxRows
                   /\ ch' = [u \in URLs |-> ch[u] + RowCount(rows, u)]
              ELSE UNCHANGED ch
           /\ Log(p, Event("clickhouse", "insert", o = "ok", UrlsOf(rows), k[p]))
           /\ IF loop_after(o, attempt[p]) = "retry"
              THEN /\ attempt' = [attempt EXCEPT ![p] = @ + 1]
                   /\ counts' = [counts EXCEPT ![p] = c]
                   /\ UNCHANGED <<k, pc, result>>
              ELSE IF k[p] + batch_size < Len(df[p])
              THEN /\ k' = [k EXCEPT ![p] = @ + batch_size]
                   /\ attempt' = [attempt EXCEPT ![p] = 0]
                   /\ counts' = [counts EXCEPT ![p] = c]
                   /\ UNCHANGED <<pc, result>>
              ELSE /\ counts' = [counts EXCEPT ![p] =
                                    [c EXCEPT !.clickhouse_count = c.total_inserted]]
                   /\ Return(p, c.mongo_count, c.total_inserted)
                   /\ UNCHANGED <<k, attempt>>
    /\ UNCHANGED <<mongo, probes, config, articles, df, existing_urls, runs>>

\* ------------------------------------------------- orchestrator (main.py)
MaxLaunches == 2     \* subprocess.Popen calls start_script makes in all

\* runs of the command line of main.py
Invocations == {"i1", "i2"}

SIGTERM == "SIGTERM"
SIGKILL == "SIGKILL"
Polls == {"check_scripts_status", "update_status"}

\* Python dictionaries: d[key] = v and del d[key]
EmptyDict == [x \in {} |-> 0]

SetItem(d, key, v) == [x \in DOMAIN d \cup {key} |-> IF x = key THEN v ELSE d[x]]

DelItem(d, key) == [x \in DOMAIN d \ {key} |-> d[x]]

\* load_process_info: the dictionary in processes.json, {} when there is no file
load_process_info == processes_json

\* os.kill(pid, 0) returns instead of raising OSError
is_running(pid) == pid \in alive

never_already_running(processes, s) == FALSE

\* start_script: the script has an entry with a PID and that process answers
already_running(processes, s) ==
    /\ s \in DOMAIN processes
    /\ processes[s].pid # 0
    /\ is_running(processes[s].pid)

keep_entry(processes, s) == processes

\* stop_script: del processes[script_name]
remove_from_tracking(processes, s) == DelItem(processes, s)

always_running(pid, o) == "running"

\* the state polling reports for a PID: running when psutil finds the process
\* running, else o: 'stopped' (it is there but not running) or 'not_found'
state_of(pid, o) == IF is_running(pid) THEN "running" ELSE o

\* the dictionary check_scripts_status and update_status build
status_of(processes, o) ==
    [s \in {x \in DOMAIN processes : processes[x].pid # 0} |->
        [pid |-> processes[s].pid,
         running |-> state_of(processes[s].pid, o[s]) = "running",
         status |-> state_of(processes[s].pid, o[s])]]

\* an invocation enters one of the functions of main.py
Begin(i, op, s) ==
    /\ opc[i] \in {"idle", "returned"}
    /\ ocall' = [ocall EXCEPT ![i] = [op |-> op, script |-> s]]
    /\ oprocesses' = [oprocesses EXCEPT ![i] = load_process_info]
    /\ osignals' = [osignals EXCEPT ![i] = <<>>]
    /\ osnap' = [osnap EXCEPT ![i] =
                    [file |-> processes_json, launched |-> launched, alive |-> alive]]

OReturn(i, v) ==
    /\ opc' = [opc EXCEPT ![i] = "returned"]
    /\ oret' = [oret EXCEPT ![i] = v]

Kill(i, sig, delivered) ==
    osignals' = [osignals EXCEPT ![i] = Append(@, [sig |-> sig, delivered |-> delivered])]

\* start_script up to the check of the recorded PID
StartScript(i, s) ==
    /\ Begin(i, "start_script", s)
    /\ IF already_running(load_process_info, s)
       THEN OReturn(i, FALSE)
       ELSE opc' = [opc EXCEPT ![i] = "popen"] /\ UNCHANGED oret
    /\ UNCHANGED <<processes_json, status_json, alive, launched, ostatus>>

\* start_script: subprocess.Popen and processes[script_name] = {...}
Popen(i, o) ==
    /\ opc[i] = "popen"
    /\ IF o = "ok"
       THEN /\ Len(launched) < MaxLaunches
            /\ launched' = Append(launched, ocall[i].script)
            /\ alive' = alive \cup {Len(launched) + 1}
            /\ oprocesses' = [oprocesses EXCEPT ![i] =
                                 SetItem(@, ocall[i].script, [pid |-> Len(launched) + 1])]
            /\ opc' = [opc EXCEPT ![i] = "save"]
            /\ UNCHANGED oret
       ELSE /\ OReturn(i, FALSE)
            /\ UNCHANGED <<launched, alive, oprocesses>>
    /\ UNCHANGED <<processes_json, status_json, ocall, osignals, ostatus, osnap>>

\* start_script: save_process_info(processes); return True
StartSave(i) ==
    /\ opc[i] = "save"
    /\ processes_json' = oprocesses[i]
    /\ OReturn(i, TRUE)
    /\ UNCHANGED <<status_json, alive, launched, ocall, oprocesses, osignals,
                   ostatus, osnap>>

\* stop_script up to the two early returns
StopScript(i, s) ==
    /\ Begin(i, "stop_script", s)
    /\ IF s \notin DOMAIN load_process_info
       THEN OReturn(i, FALSE)
       ELSE IF load_process_info[s].pid = 0
            THEN OReturn(i, FALSE)
            ELSE opc' = [opc EXCEPT ![i] = "sigterm"] /\ UNCHANGED oret
    /\ UNCHANGED <<processes_json, status_json, alive, launched, ostatus>>

\* stop_script: os.kill(pid, signal.SIGTERM); time.sleep(2).  The kill raises
\* when there is no such process; a process that got the signal is gone
\* after the two seconds (o = "ok") or is not yet (o = "slow")
Sigterm(i, o) ==
    /\ opc[i] = "sigterm"
    /\ LET pid == oprocesses[i][ocall[i].script].pid
       IN  IF ~is_running(pid)
           THEN /\ o = "ok"
                /\ OReturn(i, FALSE)
                /\ UNCHANGED <<alive, osignals>>
           ELSE /\ Kill(i, SIGTERM, TRUE)
                /\ alive' = IF o = "ok" THEN alive \ {pid} ELSE alive
                /\ opc' = [opc EXCEPT ![i] = "grace"]
                /\ UNCHANGED oret
    /\ UNCHANGED <<processes_json, status_json, launched, ocall, oprocesses,
                   ostatus, osnap>>

\* stop_script: os.kill(pid, 0), then os.kill(pid, signal.SIGKILL) when the
\* first did not raise.  o = "raise": the process went between the two calls
\* and the second raises, which is not an OSError handler's business but the
\* outer except's
Grace(i, o) ==
    /\ opc[i] = "grace"
    /\ LET pid == oprocesses[i][ocall[i].script].pid
       IN  IF is_running(pid)
           THEN /\ alive' = alive \ {pid}
                /\ IF o = "ok"
                   THEN /\ osignals' = [osignals EXCEPT ![i] =
                               @ \o << [sig |-> "0", delivered |-> TRUE],
                                       [sig |-> SIGKILL, delivered |-> TRUE] >>]
                        /\ opc' = [opc EXCEPT ![i] = "stop_save"]
                        /\ UNCHANGED oret
                   ELSE /\ osignals' = [osignals EXCEPT ![i] =
                               @ \o << [sig |-> "0", delivered |-> TRUE],
                                       [sig |-> SIGKILL, delivered |-> FALSE] >>]
                        /\ OReturn(i, FALSE)
           ELSE /\ o = "ok"
                /\ Kill(i, "0", FALSE)
                /\ opc' = [opc EXCEPT ![i] = "stop_save"]
                /\ UNCHANGED <<alive, oret>>
    /\ UNCHANGED <<processes_json, status_json, launched, ocall, oprocesses,
                   ostatus, osnap>>

\* stop_script: del processes[script_name]; save_process_info(processes)
StopSave(i) ==
    /\ opc[i] = "stop_save"
    /\ processes_json' = remove_from_tracking(oprocesses[i], ocall[i].script)
    /\ OReturn(i, TRUE)
    /\ UNCHANGED <<status_json, alive, launched, ocall, oprocesses, osignals,
                   ostatus, osnap>>

\* check_scripts_status
CheckScriptsStatus(i) ==
    /\ Begin(i, "check_scripts_status", "none")
    /\ \E o \in [DOMAIN load_process_info -> {"stopped", "not_found"}] :
           ostatus' = [ostatus EXCEPT ![i] = status_of(load_process_info, o)]
    /\ OReturn(i, TRUE)
    /\ UNCHANGED <<processes_json, status_json, alive, launched>>

\* update_status: the same polling, written to status.json
UpdateStatus(i) ==
    /\ Begin(i, "update_status", "none")
    /\ \E o \in [DOMAIN load_process_info -> {"stopped", "not_found"}] :
           /\ ostatus' = [ostatus EXCEPT ![i] = status_of(load_process_info, o)]
           /\ status_json' = status_of(load_process_info, o)
    /\ OReturn(i, TRUE)
    /\ UNCHANGED <<processes_json, alive, launched>>

\* a scraper process ends by itself (a one-shot run, an unhandled error)
ProcessExits(pid) ==
    /\ pid \in alive
    /\ alive' = alive \ {pid}
    /\ UNCHANGED <<processes_json, status_json, launched, opc, ocall, oprocesses,
                   oret, osignals, ostatus, osnap>>

OrchInit ==
    /\ processes_json = EmptyDict
    /\ status_json = EmptyDict
    /\ alive = {}
    /\ launched = <<>>
    /\ opc = [i \in Invocations |-> "idle"]
    /\ ocall = [i \in Invocations |-> [op |-> "none", script |-> "none"]]
    /\ oprocesses = [i \in Invocations |-> EmptyDict]
    /\ oret = [i \in Invocations |-> FALSE]
    /\ osignals = [i \in Invocations |-> <<>>]
    /\ ostatus = [i \in Invocations |-> EmptyDict]
    /\ osnap = [i \in Invocations |->
                   [file |-> EmptyDict, launched |-> <<>>, alive |-> {}]]

\* ------------------------------------------------ topics registry (topics.py)
MaxTopics == 2       \* documents the Topics collection is let grow to
MaxQueryLen == 2     \* characters of the longest query string

\* query strings, as sequences of characters
Chars == {" ", "a"}
QueryStrings == SeqsUpTo(Chars, MaxQueryLen)
Categories == {"general", "ondemand"}
Priorities == {1, 5}

RECURSIVE lstrip(_)
lstrip(q) == IF q # <<>> /\ Head(q) = " " THEN lstrip(Tail(q)) ELSE q

RECURSIVE Reverse(_)
Reverse(q) == IF q = <<>> THEN <<>> ELSE Append(Reverse(Tail(q)), Head(q))

\* str.strip()
strip(q) == Reverse(lstrip(Reverse(lstrip(q))))

\* not query or not query.strip()
blank(q) == q = <<>> \/ strip(q) = <<>>

\* collection.find_one(filter), given the indices of the documents that
\* match: the first of them, 0 for None
find_one(M) == IF M = {} THEN 0 ELSE CHOOSE j \in M : \A h \in M : j <= h

\* add_topic: existing = collection.find_one({'query': query})
existing_topic(coll, query) == find_one({j \in DOMAIN coll : coll[j].query = query})

\* add_topic: collection.update_one({'query': query}, {'$set': {...}})
update_existing(coll, j, category, priority, active) ==
    [coll EXCEPT ![j] = [@ EXCEPT !.category = category,
                                  !.priority = priority,
                                  !.active = active]]

\* add_topic: the Topics collection after the call
add_topic(coll, query, category, priority, active) ==
    IF blank(query) THEN coll
    ELSE LET j == existing_topic(coll, query)
         IN  IF j # 0
             THEN update_existing(coll, j, category, priority, active)
             ELSE Append(coll, [query |-> strip(query), category |-> category,
                                priority |-> priority, active |-> active])

\* the legacy Queries collection after the call: an upsert of the raw query
add_topic_legacy(qs, query) == IF blank(query) THEN qs ELSE qs \cup {query}

FlyIdle == [pc |-> "idle", query |-> <<>>, before |-> <<>>, waited |-> <<>>,
            killed |-> {}, success |-> FALSE, ret |-> FALSE]

AddTopic(query, category, priority, active) ==
    /\ fly.pc \in {"idle", "returned"}
    /\ Len(add_topic(topics, query, category, priority, active)) <= MaxTopics
    /\ topics' = add_topic(topics, query, category, priority, active)
    /\ queries' = add_topic_legacy(queries, query)
    /\ tret' = ~blank(query)
    /\ fly' = FlyIdle

\* remove_topic: the Topics collection after delete_one({'query': query})
remove_topic(coll, query) ==
    IF blank(query) THEN coll
    ELSE LET j == existing_topic(coll, query)
         IN  IF j = 0 THEN coll
             ELSE SubSeq(coll, 1, j - 1) \o SubSeq(coll, j + 1, Len(coll))

\* the legacy Queries collection after delete_one({'Query': query})
remove_topic_legacy(qs, query) == IF blank(query) THEN qs ELSE qs \ {query}

RemoveTopic(query) ==
    /\ fly.pc \in {"idle", "returned"}
    /\ topics' = remove_topic(topics, query)
    /\ queries' = remove_topic_legacy(queries, query)
    /\ tret' = (~blank(query) /\ existing_topic(topics, query) # 0)
    /\ fly' = FlyIdle

last_return_code_only(success, return_code) == return_code = "exit0"

\* on_the_fly_search: if return_code == 0: success = True
success_after(success, return_code) ==
    IF return_code = "exit0" THEN TRUE ELSE success

\* on_the_fly_search up to the start of the two scraper subprocesses
OnTheFlySearch(query) ==
    /\ fly.pc \in {"idle", "returned"}
    /\ Len(add_topic(topics, query, "ondemand", 1, TRUE)) <= MaxTopics
    /\ topics' = add_topic(topics, query, "ondemand", 1, TRUE)
    /\ queries' = add_topic_legacy(queries, query)
    /\ tret' = ~blank(query)
    /\ fly' = [pc |-> "communicate", query |-> query, before |-> topics,
               waited |-> <<>>, killed |-> {}, success |-> FALSE, ret |-> FALSE]

\* on_the_fly_search: one turn of the loop over ('DuckDuckGo', 'GNews'):
\* process.communicate(timeout=90) gives an exit code or raises
\* TimeoutExpired, and the return after the second turn
Communicate(o) ==
    /\ fly.pc = "communicate"
    /\ LET n == Len(fly.waited) + 1
           success == IF o = "timeout" THEN fly.success
                      ELSE success_after(fly.success, o)
       IN  fly' = [fly EXCEPT !.waited = Append(@, o),
                              !.killed = IF o = "timeout" THEN @ \cup {n} ELSE @,
                              !.success = success,
                              !.pc = IF n = 2 THEN "returned" ELSE @,
                              !.ret = IF n = 2 THEN success ELSE @]
    /\ UNCHANGED <<topics, queries, tret>>

TopicsInit ==
    /\ topics = <<>>
    /\ queries = {}
    /\ tret = FALSE
    /\ fly = FlyIdle

\* ---------------------------------------- sources registry (sources_utils.py)
MaxSources == 3      \* documents the NewsSources collection is let grow to

Sites == {"www.ft.com", "www.politico.com"}
Feeds == {"https://www.ft.com/news-feed?format=rss",
          "https://rss.politico.com/economy.xml",
          "https://rss.politico.com/politics-news.xml"}
SourceCategories == {"finance", "politics"}

\* initialize_sources_collection: default_sources (two of the sites, one of
\* them with two feeds)
default_sources ==
    << [site |-> "www.ft.com", RSS |-> "https://www.ft.com/news-feed?format=rss",
        category |-> "finance", active |-> TRUE],
       [site |-> "www.politico.com", RSS |-> "https://rss.politico.com/economy.xml",
        category |-> "politics", active |-> TRUE],
       [site |-> "www.politico.com", RSS |-> "https://rss.politico.com/politics-news.xml",
        category |-> "politics", active |-> TRUE] >>

no_existing_source(coll, site, rss_url) == 0

\* add_source: existing = collection.find_one({'site': site, 'RSS': rss_url})
existing_source(coll, site, rss_url) ==
    find_one({j \in DOMAIN coll : coll[j].site = site /\ coll[j].RSS = rss_url})

\* the unique index on (site, RSS) refuses the document
DuplicateKey(coll, doc) ==
    /\ sources_meta.unique
    /\ \E j \in DOMAIN coll : coll[j].site = doc.site /\ coll[j].RSS = doc.RSS

InitializeSourcesCollection ==
    /\ scall' = [op |-> "initialize_sources_collection", site |-> "", RSS |-> ""]
    /\ ssnap' = sources
    /\ sret' = "True"
    /\ IF ~sources_meta.exists
       THEN /\ sources_meta' = [exists |-> TRUE, unique |-> TRUE]
            /\ sources' = default_sources
       ELSE UNCHANGED <<sources, sources_meta>>

\* add_source; insert_one creates a collection that does not exist yet, with
\* no index
AddSource(site, rss_url, category, active) ==
    LET doc == [site |-> site, RSS |-> rss_url, category |-> category,
                active |-> active]
    IN  /\ scall' = [op |-> "add_source", site |-> site, RSS |-> rss_url]
        /\ ssnap' = sources
        /\ IF existing_source(sources, site, rss_url) # 0
           THEN sret' = "False" /\ UNCHANGED <<sources, sources_meta>>
           ELSE IF DuplicateKey(sources, doc)
                THEN sret' = "raise" /\ UNCHANGED <<sources, sources_meta>>
                ELSE /\ Len(sources) < MaxSources
                     /\ sources' = Append(sources, doc)
                     /\ sources_meta' = [sources_meta EXCEPT !.exists = TRUE]
                     /\ sret' = "True"

SourcesInit ==
    /\ sources = <<>>
    /\ sources_meta = [exists |-> FALSE, unique |-> FALSE]
    /\ scall = [op |-> "none", site |-> "", RSS |-> ""]
    /\ sret = "None"
    /\ ssnap = <<>>

\* ------------------------------------------- scraper scripts: __main__ block
MaxMains == 3        \* calls of main one run of a script is let make

\* values of --query and of the environment variable QUERY; "None": not given
QueryValues == {"None", "", "q"}

\* Python truth of a string or None
truthy(v) == v \notin {"None", ""}

Argv == [script : Scripts, test : BOOLEAN, query : QueryValues, no_wait : BOOLEAN]
Env == [TEST_MODE : {"None", "1"}, QUERY : QueryValues, NO_WAIT : {"None", "1"}]

\* parse_args: WebSitesNews has no --query
parse_args(argv) ==
    [test |-> argv.test,
     query |-> IF argv.script = "WebSitesNews" THEN "None" ELSE argv.query,
     no_wait |-> argv.no_wait]

\* the overrides from the environment at the top of the __main__ block
merge_environment(s, a, env) ==
    [test |-> IF env.TEST_MODE = "1" THEN TRUE ELSE a.test,
     query |-> IF s # "WebSitesNews" /\ ~truthy(a.query) /\ env.QUERY # "None"
               THEN env.QUERY ELSE a.query,
     no_wait |-> IF env.NO_WAIT = "1" THEN TRUE ELSE a.no_wait]

\* if args.test or args.query or args.no_wait
one_shot(a) == a.test \/ truthy(a.query) \/ a.no_wait

\* sys.exit(0 if success else 1)
exit_code(success) == IF success THEN 0 ELSE 1

stop_after_failed_run(success) == IF success THEN "sleep" ELSE "exited"

\* the loop 'while True' after a call of main returned: back to time.sleep(30)
after_loop_run(success) == "sleep"

Exit(success, cause) ==
    /\ lpc' = "exited"
    /\ exit_status' = exit_code(success)
    /\ exit_cause' = cause

\* from the start of the __main__ block to the one-shot exit or to the loop
FirstRun(success) ==
    /\ lpc = "start"
    /\ largs' = merge_environment(largv.script, parse_args(largv), lenv)
    /\ lresults' = <<success>>
    /\ IF one_shot(largs')
       THEN Exit(success, "one-shot")
       ELSE lpc' = "sleep" /\ UNCHANGED <<exit_status, exit_cause>>
    /\ UNCHANGED <<largv, lenv>>

\* time.sleep(30) returns
Sleep ==
    /\ lpc = "sleep"
    /\ lpc' = "run"
    /\ UNCHANGED <<largv, lenv, largs, lresults, exit_status, exit_cause>>

\* success = main(test_mode=False) in the loop
LoopRun(success) ==
    /\ lpc = "run"
    /\ Len(lresults) < MaxMains
    /\ lresults' = Append(lresults, success)
    /\ IF after_loop_run(success) = "exited"
       THEN Exit(success, "main")
       ELSE lpc' = "sleep" /\ UNCHANGED <<exit_status, exit_cause>>
    /\ UNCHANGED <<largv, lenv, largs>>

\* Ctrl+C while the loop sleeps or runs: except KeyboardInterrupt, then
\* sys.exit(0 if success else 1) with the success of the last call of main
KeyboardInterrupt ==
    /\ lpc \in {"sleep", "run"}
    /\ Exit(lresults[Len(lresults)], "KeyboardInterrupt")
    /\ UNCHANGED <<largv, lenv, largs, lresults>>

LifecycleFrom(Argvs) ==
    /\ largv \in Argvs
    /\ lenv \in Env
    /\ largs = parse_args(largv)
    /\ lpc = "start"
    /\ lresults = <<>>
    /\ exit_status = -1
    /\ exit_cause = "none"

LifecycleInit ==
    LifecycleFrom({[script |-> "WebSitesNews", test |-> FALSE, query |-> "None",
                    no_wait |-> FALSE]})
    /\ lenv = [TEST_MODE |-> "None", QUERY |-> "None", NO_WAIT |-> "None"]

\* -------------------------------------- migration (migrate_to_clickhouse.py)
\* values of --batch-size: one document per batch, and the default
BatchSizes == {1, batch_size}

NoStats == [total_processed |-> 0, total_migrated |-> 0, total_skipped |-> 0,
            batches |-> 0, errors |-> 0]

MigIdle == [pc |-> "idle", test_mode |-> FALSE, skip_if_exists |-> FALSE,
            batch_size |-> batch_size, existing_urls |-> {}, offset |-> 0,
            stats |-> NoStats,
            before |-> [schema |-> [database |-> TRUE, table |-> TRUE],
                        ch |-> [u \in URLs |-> 0]]]

\* the documents with url u, as the rows fetch_mongodb_articles yields
DocsOf(u) == [j \in DOMAIN mongo[u] |->
                 [url |-> u, date |-> mongo[u][j].date, body |-> mongo[u][j].body]]

\* collection.find(query).sort("date", 1)
cursor == sort_values(DocsOf("u1") \o DocsOf("u2"), TRUE)

\* create_news_table_if_not_exists: CREATE DATABASE IF NOT EXISTS (when SHOW
\* DATABASES does not list it) and CREATE TABLE IF NOT EXISTS
create_news_table_if_not_exists == [database |-> TRUE, table |-> TRUE]

\* the rows save_articles_to_clickhouse inserts: with dedup_by_url those
\* whose url the table does not hold
rows_to_insert(d, dedup_by_url) ==
    IF dedup_by_url THEN Rows(d, {j \in DOMAIN d : ch[d[j].url] = 0}) ELSE d

\* migrate_articles up to the loop over the batches.  The connection names
\* database news: where it does not exist the server may refuse the session
\* (o = "raise") before any statement
MigrateArticles(test_mode, skip_if_exists, bsz, o) ==
    /\ mig.pc \in {"idle", "returned", "raised"}
    /\ IF o = "raise"
       THEN /\ ~schema.database
            /\ mig' = [MigIdle EXCEPT !.pc = "raised", !.test_mode = test_mode,
                                      !.skip_if_exists = skip_if_exists,
                                      !.batch_size = bsz,
                                      !.before = [schema |-> schema, ch |-> ch]]
            /\ UNCHANGED schema
       ELSE /\ schema' = create_news_table_if_not_exists
            /\ mig' = [MigIdle EXCEPT
                          !.pc = IF cursor = <<>> THEN "returned" ELSE "batches",
                          !.test_mode = test_mode,
                          !.skip_if_exists = skip_if_exists,
                          !.batch_size = bsz,
                          !.existing_urls = IF skip_if_exists
                                            THEN {u \in URLs : ch[u] > 0} ELSE {},
                          !.before = [schema |-> schema, ch |-> ch]]
    /\ UNCHANGED <<mongo, ch>>

\* one turn of the loop over the batches.  In production mode the batch goes
\* to save_articles_to_clickhouse, which inserts it (o = "ok") or returns 0
\* because the table is unavailable or every attempt failed (o = "raise")
MigrateBatch(o) ==
    /\ mig.pc = "batches"
    /\ LET n == Len(cursor)
           last == Min(mig.offset + mig.batch_size, n)
           batch == SubSeq(cursor, mig.offset + 1, last)
           filtering == mig.skip_if_exists /\ mig.existing_urls # {}
           d == IF filtering THEN filter_existing(batch, mig.existing_urls) ELSE batch
           skipped == Len(batch) - Len(d)
           counted == [mig.stats EXCEPT !.batches = @ + 1,
                                        !.total_processed = @ + Len(batch),
                                        !.total_skipped = @ + skipped]
           rows == rows_to_insert(d, ~mig.skip_if_exists)
           goes_on == [mig EXCEPT !.offset = last,
                                  !.pc = IF last >= n THEN "returned" ELSE "batches"]
       IN  IF filtering /\ d = <<>>
           THEN /\ o = "ok"
                /\ mig' = [goes_on EXCEPT !.stats = counted]
                /\ UNCHANGED ch
           ELSE IF mig.test_mode
                THEN /\ o = "ok"
                     /\ mig' = [goes_on EXCEPT
                                   !.stats = [counted EXCEPT !.total_migrated = @ + Len(d)]]
                     /\ UNCHANGED ch
                ELSE /\ IF o = "ok"
                        THEN /\ \A u \in URLs : ch[u] + RowCount(rows, u) <= MaxRows
                             /\ ch' = [u \in URLs |-> ch[u] + RowCount(rows, u)]
                        ELSE UNCHANGED ch
                     /\ mig' = [goes_on EXCEPT
                                   !.stats = [counted EXCEPT !.total_migrated =
                                                 @ + IF o = "ok" THEN Len(rows) ELSE 0],
                                   !.existing_urls = IF mig.skip_if_exists
                                                     THEN @ \cup UrlsOf(d) ELSE @]
    /\ UNCHANGED <<mongo, schema>>

MigrationInit ==
    /\ schema = [database |-> TRUE, table |-> TRUE]
    /\ mig = MigIdle

\* ------------------- save_articles_to_clickhouse with its own arguments
SvIdle == [pc |-> "idle", articles_dict |-> <<>>, dedup_by_url |-> TRUE,
           batch_size |-> batch_size, queried |-> "no",
           at_query |-> [u \in URLs |-> 0], new_articles |-> <<>>,
           i |-> 0, attempt |-> 0, total_inserted |-> 0, ret |-> 0,
           inserts |-> <<>>]

all_articles(d, urls_in_db) == d

\* new_articles = [article for article in articles_dict
\*                 if article['url'] not in urls_in_db]
not_in_db(d, urls_in_db) == Rows(d, {j \in DOMAIN d : d[j].url \notin urls_in_db})

counting_every_attempt(t, rows, o) == t + Len(rows)

\* total_inserted += len(rows), which follows client.execute inside the try
total_inserted_after(t, rows, o) == IF o = "ok" THEN t + Len(rows) ELSE t

\* the call up to the deduplication: the empty case, the conversion,
\* create_news_table_if_not_exists and check_table_availability ("raise": a
\* statement up to the probe insert fails; "probe_left": the probe insert
\* succeeds and the delete fails)
SaveArticlesToClickhouse(a, dedup_by_url, bsz, o) ==
    /\ sv.pc = "idle"
    /\ LET called == [SvIdle EXCEPT !.articles_dict = a,
                                     !.dedup_by_url = dedup_by_url,
                                     !.batch_size = bsz]
       IN  IF a = <<>>
           THEN /\ o = "ok"
                /\ sv' = [called EXCEPT !.pc = "returned"]
                /\ UNCHANGED probes
           ELSE CASE o = "ok" ->
                       /\ sv' = IF dedup_by_url
                                THEN [called EXCEPT !.pc = "existence_query"]
                                ELSE [called EXCEPT !.pc = "insert_batch",
                                                    !.new_articles = a]
                       /\ UNCHANGED probes
                  [] o = "raise" ->
                       /\ sv' = [called EXCEPT !.pc = "returned"]
                       /\ UNCHANGED probes
                  [] o = "probe_left" ->
                       /\ probes < MaxProbes
                       /\ probes' = probes + 1
                       /\ sv' = [called EXCEPT !.pc = "returned"]
    /\ UNCHANGED ch

\* the existence query (one chunk: the lists here are shorter than
\* chunk_size) and the filter, or the except clause that keeps every article
ExistenceQuery(o) ==
    /\ sv.pc = "existence_query"
    /\ LET urls_in_db == {u \in UrlsOf(sv.articles_dict) : ch[u] > 0}
           new_articles == IF o = "ok" THEN not_in_db(sv.articles_dict, urls_in_db)
                           ELSE sv.articles_dict
       IN  sv' = [sv EXCEPT !.queried = o,
                            !.at_query = ch,
                            !.new_articles = new_articles,
                            !.pc = IF new_articles = <<>> THEN "returned"
                                   ELSE "insert_batch"]
    /\ UNCHANGED <<ch, probes>>

\* one client.execute(INSERT ...) of the batch at offset i, the retry loop
\* around it and the loop over the batches
InsertAttempt(o) ==
    /\ sv.pc = "insert_batch"
    /\ LET n == Len(sv.new_articles)
           rows == SubSeq(sv.new_articles, sv.i + 1, Min(sv.i + sv.batch_size, n))
           total == total_inserted_after(sv.total_inserted, rows, o)
           logged == [sv EXCEPT !.inserts = Append(@, [i |-> sv.i,
                                                        attempt |-> sv.attempt,
                                                        ok |-> o = "ok",
                                                        rows |-> rows]),
                                !.total_inserted = total]
       IN  /\ ch' = IF o = "ok" THEN [u \in URLs |-> ch[u] + RowCount(rows, u)]
                    ELSE ch
           /\ sv' = IF loop_after(o, sv.attempt) = "retry"
                    THEN [logged EXCEPT !.attempt = @ + 1]
                    ELSE IF sv.i + sv.batch_size < n
                    THEN [logged EXCEPT !.i = @ + sv.batch_size, !.attempt = 0]
                    ELSE [logged EXCEPT !.pc = "returned", !.ret = total]
    /\ UNCHANGED probes

ClickhouseCallInit == sv = SvIdle

\* ------------------------ main() of DuckDuckGoApiNews and of GNewsApiNews
\* for attempt in range(3) / for attempt in range(5)
search_attempts(s) == IF s = "DuckDuckGoApiNews" THEN 3 ELSE 5

\* what one search_news call gives: a list, or an exception
Raised == [raised |-> TRUE, list |-> <<>>]

Results(list) == [raised |-> FALSE, list |-> list]

RunIdle == [pc |-> "idle", topics |-> <<>>, t |-> 0, attempt |-> 0,
            articles |-> <<>>, last |-> "none", attempts |-> <<>>,
            found |-> <<>>, handed |-> <<>>, ret |-> "none"]

keep_searching(results, att, n) ==
    IF att = n - 1 THEN "done" ELSE "again"

\* the loop over the attempts: break on a non-empty list, else the next
\* attempt while there is one
after_search(results, att, n) ==
    IF ~results.raised /\ results.list # <<>> THEN "done"
    ELSE IF att = n - 1 THEN "done" ELSE "again"

\* for query in topics: the next topic, or ensure_date_format and return True
NextTopic(r) ==
    IF r.t < Len(r.topics)
    THEN [r EXCEPT !.pc = "search", !.t = @ + 1, !.attempt = 0,
                   !.articles = <<>>, !.last = "none",
                   !.attempts = Append(@, 0), !.found = Append(@, <<>>),
                   !.handed = Append(@, NoneValue)]
    ELSE [r EXCEPT !.pc = "returned", !.ret = "True"]

\* main() up to the first topic
Main(topic_list) ==
    /\ run.pc = "idle"
    /\ run' = NextTopic([RunIdle EXCEPT !.topics = topic_list])
    /\ UNCHANGED pipeline

\* one turn of the loop over the attempts
SearchNews(p, results) ==
    /\ run.pc = "search"
    /\ LET n == search_attempts(script[p])
           got == ~results.raised /\ results.list # <<>>
           r == [run EXCEPT !.attempts[run.t] = @ + 1,
                            !.last = IF results.raised THEN "raise"
                                     ELSE IF got THEN "found" ELSE "empty",
                            !.articles = IF got THEN @ \o results.list ELSE @,
                            !.found[run.t] = IF got THEN results.list ELSE @]
       IN  run' = IF after_search(results, run.attempt, n) = "again"
                  THEN [r EXCEPT !.attempt = @ + 1]
                  ELSE [r EXCEPT !.pc = "process"]
    /\ UNCHANGED pipeline

\* if articles: process_articles and the call of save_articles_to_all_dbs;
\* an exception of process_articles ends main() in its except clause
ProcessAndSave(p, o) ==
    /\ run.pc = "process"
    /\ IF run.articles = <<>>
       THEN /\ o = "ok"
            /\ run' = NextTopic(run)
            /\ UNCHANGED pipeline
       ELSE IF o = "raise"
       THEN /\ run' = [run EXCEPT !.pc = "returned", !.ret = "False"]
            /\ UNCHANGED pipeline
       ELSE IF Batch(script[p], run.articles).none
       THEN /\ run' = NextTopic(run)
            /\ UNCHANGED pipeline
       ELSE /\ ScraperRun(p, {run.articles})
            /\ run' = [run EXCEPT !.pc = "saving",
                                  !.handed[run.t] = Batch(script[p], run.articles)]
            /\ UNCHANGED runs

\* save_articles_to_all_dbs has returned
Saved(p) ==
    /\ run.pc = "saving"
    /\ pc[p] = "returned"
    /\ run' = NextTopic(run)
    /\ UNCHANGED pipeline

ScraperMainInit == run = RunIdle

\* the state of everything but the write pipeline when only the pipeline runs
NothingElse ==
    /\ OrchInit
    /\ TopicsInit
    /\ SourcesInit
    /\ LifecycleInit
    /\ MigrationInit
    /\ ClickhouseCallInit
    /\ ScraperMainInit

\* ---------------------------------------------------------- specifications
ProcState ==
    /\ pc = [p \in Procs |-> "idle"]
    /\ articles = [p \in Procs |-> NoneValue]
    /\ df = [p \in Procs |-> <<>>]
    /\ existing_urls = [p \in Procs |-> {}]
    /\ k = [p \in Procs |-> 1]
    /\ attempt = [p \in Procs |-> 0]
    /\ counts = [p \in Procs |-> NoCounts]
    /\ result = [p \in Procs |-> Summary(0, 0)]
    /\ io = [p \in Procs |-> <<>>]
    /\ runs = [p \in Procs |-> 0]

EmptyStores ==
    /\ mongo = [u \in URLs |-> <<>>]
    /\ ch = [u \in URLs |-> 0]
    /\ probes = 0

BothStores == [no_mongodb |-> FALSE, no_clickhouse |-> FALSE]

Flags == [no_mongodb : BOOLEAN, no_clickhouse : BOOLEAN]

\* what the entries of an RSS feed are drawn from: any url and date, a plain
\* summary
FeedEntry == {a \in Article : a.body = "body"}

\* the lists of raw results a run of the script may collect
Inputs(s) == SeqsUpTo(IF s = "WebSitesNews" THEN FeedEntry ELSE Article, MaxResults)

\* one scraper process running any script with both stores in use, and
\* stores that fail at will
Solo == {"p1"}

Init ==
    /\ NothingElse
    /\ EmptyStores
    /\ ProcState
    /\ script \in [Procs -> Scripts]
    /\ script["p2"] = "WebSitesNews"
    /\ args = [p \in Procs |-> BothStores]
    /\ environ = [p \in Procs |-> "true"]
    /\ outages = -1

Next ==
    \/ UNCHANGED beyond_pipeline /\ \E p \in Solo : Counted(p) /\ ScraperRun(p, Inputs(script[p]))
    \/ UNCHANGED beyond_pipeline /\ \E p \in Solo : Counted(p) /\ DirectCall(p)
    \/ UNCHANGED beyond_pipeline /\ \E p \in Solo, o \in Outcomes : CheckMongo(p, o)
    \/ UNCHANGED beyond_pipeline /\ \E p \in Solo, o \in Outcomes : CheckClickhouse(p, o)
    \/ UNCHANGED beyond_pipeline /\ \E p \in Solo, o \in Outcomes : BulkWrite(p, o)
    \/ UNCHANGED beyond_pipeline /\ \E p \in Solo, o \in Outcomes : UpsertInsert(p, o)
    \/ UNCHANGED beyond_pipeline /\ \E p \in Solo, o \in Outcomes \cup {"probe_left"} : SaveClickhouse(p, o)
    \/ UNCHANGED beyond_pipeline /\ \E p \in Solo, o \in Outcomes : InsertBatch(p, o)

Spec == Init /\ [][Next]_vars

\* concurrent scraper processes, each running any script with both stores in
\* use, on stores that do not fail
ConcInit ==
    /\ NothingElse
    /\ EmptyStores
    /\ ProcState
    /\ script \in [Procs -> Scripts]
    /\ args = [p \in Procs |-> BothStores]
    /\ environ = [p \in Procs |-> "true"]
    /\ outages = 0

\* what the concurrent runs collect: the same day's articles
SameDay == {a \in FeedEntry : a.date = 1}

ConcNext ==
    \/ UNCHANGED beyond_pipeline /\ \E p \in Procs : Counted(p) /\ ScraperRun(p, SeqsUpTo(SameDay, MaxResults))
    \/ UNCHANGED beyond_pipeline /\ \E p \in Procs : CheckMongo(p, "ok")
    \/ UNCHANGED beyond_pipeline /\ \E p \in Procs : CheckClickhouse(p, "ok")
    \/ UNCHANGED beyond_pipeline /\ \E p \in Procs : BulkWrite(p, "ok")
    \/ UNCHANGED beyond_pipeline /\ \E p \in Procs : UpsertInsert(p, "ok")
    \/ UNCHANGED beyond_pipeline /\ \E p \in Procs : SaveClickhouse(p, "ok")
    \/ UNCHANGED beyond_pipeline /\ \E p \in Procs : InsertBatch(p, "ok")

ConcSpec == ConcInit /\ [][ConcNext]_vars

\* one RSS scraper process with any command line flags and any value of
\* USE_CLICKHOUSE, and stores that fail at will
FlagsInit ==
    /\ NothingElse
    /\ EmptyStores
    /\ ProcState
    /\ script = [p \in Procs |-> "WebSitesNews"]
    /\ args \in [Procs -> Flags]
    /\ args["p2"] = BothStores
    /\ environ \in [Procs -> EnvValues]
    /\ environ["p2"] = "true"
    /\ outages = -1

FlagsSpec == FlagsInit /\ [][Next]_vars

\* one scraper process that runs for ever and is offered the article Offered
\* in every run, on stores whose failures are transient: they fail MaxFaults
\* times in all
Offered == [url |-> "u1", date |-> 1, body |-> "body"]

OfferedLists == {raw \in SeqsUpTo(FeedEntry, MaxResults) :
                    \E j \in DOMAIN raw : raw[j] = Offered}

LiveInit ==
    /\ NothingElse
    /\ EmptyStores
    /\ ProcState
    /\ script \in [Procs -> Scripts]
    /\ script["p2"] = "WebSitesNews"
    /\ args = [p \in Procs |-> BothStores]
    /\ environ = [p \in Procs |-> "true"]
    /\ outages = MaxFaults

LiveNext ==
    \/ UNCHANGED beyond_pipeline /\ \E p \in Solo : ScraperRun(p, OfferedLists) /\ UNCHANGED runs
    \/ UNCHANGED beyond_pipeline /\ \E p \in Solo, o \in Outcomes : CheckMongo(p, o)
    \/ UNCHANGED beyond_pipeline /\ \E p \in Solo, o \in Outcomes : CheckClickhouse(p, o)
    \/ UNCHANGED beyond_pipeline /\ \E p \in Solo, o \in Outcomes : BulkWrite(p, o)
    \/ UNCHANGED beyond_pipeline /\ \E p \in Solo, o \in Outcomes : UpsertInsert(p, o)
    \/ UNCHANGED beyond_pipeline /\ \E p \in Solo, o \in Outcomes \cup {"probe_left"} : SaveClickhouse(p, o)
    \/ UNCHANGED beyond_pipeline /\ \E p \in Solo, o \in Outcomes : InsertBatch(p, o)

\* the scraper's loop (while True: sleep(30); main()) keeps taking steps
LiveSpec == LiveInit /\ [][LiveNext]_vars /\ WF_vars(LiveNext)

\* the state of the write pipeline when no scraper process saves anything
PipelineIdle ==
    /\ EmptyStores
    /\ ProcState
    /\ script = [p \in Procs |-> "WebSitesNews"]
    /\ args = [p \in Procs |-> BothStores]
    /\ environ = [p \in Procs |-> "true"]
    /\ outages = 0

\* one invocation of main.py at a time issuing start, stop and status
\* commands, in any order
OrchSolo == {"i1"}

OrchInitial ==
    /\ OrchInit
    /\ PipelineIdle
    /\ TopicsInit
    /\ SourcesInit
    /\ LifecycleInit
    /\ MigrationInit
    /\ ClickhouseCallInit
    /\ ScraperMainInit

OrchNext ==
    \/ UNCHANGED beyond_orch /\ \E i \in OrchSolo, s \in Scripts : StartScript(i, s)
    \/ UNCHANGED beyond_orch /\ \E i \in OrchSolo, o \in Outcomes : Popen(i, o)
    \/ UNCHANGED beyond_orch /\ \E i \in OrchSolo : StartSave(i)
    \/ UNCHANGED beyond_orch /\ \E i \in OrchSolo, s \in Scripts : StopScript(i, s)
    \/ UNCHANGED beyond_orch /\ \E i \in OrchSolo, o \in {"ok", "slow"} : Sigterm(i, o)
    \/ UNCHANGED beyond_orch /\ \E i \in OrchSolo, o \in Outcomes : Grace(i, o)
    \/ UNCHANGED beyond_orch /\ \E i \in OrchSolo : StopSave(i)
    \/ UNCHANGED beyond_orch /\ \E i \in OrchSolo : CheckScriptsStatus(i)
    \/ UNCHANGED beyond_orch /\ \E i \in OrchSolo : UpdateStatus(i)
    \/ UNCHANGED beyond_orch /\ \E pid \in alive : ProcessExits(pid)

OrchSpec == OrchInitial /\ [][OrchNext]_vars

\* two invocations of main.py running at the same time, issuing start and
\* stop commands
OrchConcNext ==
    \/ UNCHANGED beyond_orch /\ \E i \in Invocations, s \in Scripts : StartScript(i, s)
    \/ UNCHANGED beyond_orch /\ \E i \in Invocations : Popen(i, "ok")
    \/ UNCHANGED beyond_orch /\ \E i \in Invocations : StartSave(i)
    \/ UNCHANGED beyond_orch /\ \E i \in Invocations, s \in Scripts : StopScript(i, s)
    \/ UNCHANGED beyond_orch /\ \E i \in Invocations : Sigterm(i, "ok")
    \/ UNCHANGED beyond_orch /\ \E i \in Invocations : Grace(i, "ok")
    \/ UNCHANGED beyond_orch /\ \E i \in Invocations : StopSave(i)

OrchConcSpec == OrchInitial /\ [][OrchConcNext]_vars

\* calls of add_topic and on_the_fly_search, one after the other, with any
\* arguments
TopicsInitial ==
    /\ TopicsInit
    /\ PipelineIdle
    /\ OrchInit
    /\ SourcesInit
    /\ LifecycleInit
    /\ MigrationInit
    /\ ClickhouseCallInit
    /\ ScraperMainInit

TopicsNext ==
    \/ UNCHANGED beyond_topics /\ \E q \in QueryStrings, c \in Categories, pr \in Priorities, a \in BOOLEAN : AddTopic(q, c, pr, a)
    \/ UNCHANGED beyond_topics /\ \E q \in QueryStrings : OnTheFlySearch(q)
    \/ UNCHANGED beyond_topics /\ \E o \in {"exit0", "exit1", "timeout"} : Communicate(o)

TopicsSpec == TopicsInitial /\ [][TopicsNext]_vars

\* any sequence of add_topic and remove_topic calls on an empty registry
RegistryNext ==
    \/ UNCHANGED beyond_topics /\ \E q \in QueryStrings, c \in Categories, pr \in Priorities, a \in BOOLEAN : AddTopic(q, c, pr, a)
    \/ UNCHANGED beyond_topics /\ \E q \in QueryStrings : RemoveTopic(q)

RegistrySpec == TopicsInitial /\ [][RegistryNext]_vars

\* calls of initialize_sources_collection and add_source, one after the
\* other, in any order and with any arguments
SourcesInitial ==
    /\ SourcesInit
    /\ PipelineIdle
    /\ OrchInit
    /\ TopicsInit
    /\ LifecycleInit
    /\ MigrationInit
    /\ ClickhouseCallInit
    /\ ScraperMainInit

SourcesNext ==
    \/ UNCHANGED beyond_sources /\ InitializeSourcesCollection
    \/ UNCHANGED beyond_sources /\ \E site \in Sites, rss \in Feeds, c \in SourceCategories, a \in BOOLEAN : AddSource(site, rss, c, a)

SourcesSpec == SourcesInitial /\ [][SourcesNext]_vars

\* one run of any scraper script with any command line and environment
LifecycleInitial ==
    /\ LifecycleFrom(Argv)
    /\ PipelineIdle
    /\ OrchInit
    /\ TopicsInit
    /\ SourcesInit
    /\ MigrationInit
    /\ ClickhouseCallInit
    /\ ScraperMainInit

LifecycleNext ==
    \/ UNCHANGED beyond_lifecycle /\ \E success \in BOOLEAN : FirstRun(success)
    \/ UNCHANGED beyond_lifecycle /\ Sleep
    \/ UNCHANGED beyond_lifecycle /\ \E success \in BOOLEAN : LoopRun(success)
    \/ UNCHANGED beyond_lifecycle /\ KeyboardInterrupt

LifecycleSpec == LifecycleInitial /\ [][LifecycleNext]_vars

\* runs of the migration, in test mode and in production mode, from a News
\* collection with some documents to a ClickHouse where the database, the
\* table or neither may be missing
Stored == {<<>>} \cup {<<Doc(a)>> : a \in FeedEntry}

MigrationInitial ==
    /\ mongo \in [URLs -> Stored]
    /\ schema \in {[database |-> FALSE, table |-> FALSE],
                   [database |-> TRUE, table |-> FALSE],
                   [database |-> TRUE, table |-> TRUE]}
    /\ ch \in [URLs -> 0..1]
    /\ ~schema.table => ch = [u \in URLs |-> 0]
    /\ probes = 0
    /\ mig = MigIdle
    /\ ProcState
    /\ script = [p \in Procs |-> "WebSitesNews"]
    /\ args = [p \in Procs |-> BothStores]
    /\ environ = [p \in Procs |-> "true"]
    /\ outages = 0
    /\ OrchInit
    /\ TopicsInit
    /\ SourcesInit
    /\ LifecycleInit
    /\ ClickhouseCallInit
    /\ ScraperMainInit

MigrationNext ==
    \/ UNCHANGED beyond_migration /\ \E t \in BOOLEAN, sk \in BOOLEAN, b \in BatchSizes, o \in Outcomes : MigrateArticles(t, sk, b, o)
    \/ UNCHANGED beyond_migration /\ \E o \in Outcomes : MigrateBatch(o)

MigrationSpec == MigrationInitial /\ [][MigrationNext]_vars

\* save_articles_to_clickhouse called once, with any arguments, on a table
\* that holds some of the URLs, and a ClickHouse that fails at will
MaxArticles == 3

SavedArticles == SeqsUpTo({a \in FeedEntry : a.date = 1}, MaxArticles)

SaveBatchSizes == {1, 2, batch_size}

ClickhouseCallInitial ==
    /\ ClickhouseCallInit
    /\ mongo = [u \in URLs |-> <<>>]
    /\ ch \in [URLs -> 0..1]
    /\ probes = 0
    /\ ProcState
    /\ script = [p \in Procs |-> "WebSitesNews"]
    /\ args = [p \in Procs |-> BothStores]
    /\ environ = [p \in Procs |-> "true"]
    /\ outages = 0
    /\ OrchInit
    /\ TopicsInit
    /\ SourcesInit
    /\ LifecycleInit
    /\ MigrationInit
    /\ ScraperMainInit

ClickhouseCallNext ==
    \/ UNCHANGED beyond_clickhouse_call /\ \E a \in SavedArticles, d \in BOOLEAN, b \in SaveBatchSizes, o \in Outcomes \cup {"probe_left"} : SaveArticlesToClickhouse(a, d, b, o)
    \/ UNCHANGED beyond_clickhouse_call /\ \E o \in Outcomes : ExistenceQuery(o)
    \/ UNCHANGED beyond_clickhouse_call /\ \E o \in Outcomes : InsertAttempt(o)

ClickhouseCallSpec == ClickhouseCallInitial /\ [][ClickhouseCallNext]_vars

\* one run of main() of a search scraper over a list of topics, with searches
\* that return anything or raise, and healthy stores
TopicLists == {<<>>, <<"a">>, <<"a", "b">>}

Found == {a \in Article : a.date = 1}

SearchResults == {Raised} \cup {Results(l) : l \in SeqsUpTo(Found, MaxResults)}

ScraperMainInitial ==
    /\ ScraperMainInit
    /\ EmptyStores
    /\ ProcState
    /\ script \in [Procs -> {"DuckDuckGoApiNews", "GNewsApiNews"}]
    /\ script["p2"] = "DuckDuckGoApiNews"
    /\ args = [p \in Procs |-> BothStores]
    /\ environ = [p \in Procs |-> "true"]
    /\ outages = 0
    /\ OrchInit
    /\ TopicsInit
    /\ SourcesInit
    /\ LifecycleInit
    /\ MigrationInit
    /\ ClickhouseCallInit

ScraperMainNext ==
    \/ UNCHANGED beyond_scraper_main /\ \E l \in TopicLists : Main(l)
    \/ UNCHANGED beyond_scraper_main /\ \E p \in Solo, r \in SearchResults : SearchNews(p, r)
    \/ UNCHANGED beyond_scraper_main /\ \E p \in Solo, o \in Outcomes : ProcessAndSave(p, o)
    \/ UNCHANGED beyond_scraper_main /\ \E p \in Solo : Saved(p)
    \/ UNCHANGED beyond_pipeline /\ \E p \in Solo, o \in Outcomes : CheckMongo(p, o)
    \/ UNCHANGED beyond_pipeline /\ \E p \in Solo, o \in Outcomes : CheckClickhouse(p, o)
    \/ UNCHANGED beyond_pipeline /\ \E p \in Solo, o \in Outcomes : BulkWrite(p, o)
    \/ UNCHANGED beyond_pipeline /\ \E p \in Solo, o \in Outcomes : UpsertInsert(p, o)
    \/ UNCHANGED beyond_pipeline /\ \E p \in Solo, o \in Outcomes : SaveClickhouse(p, o)
    \/ UNCHANGED beyond_pipeline /\ \E p \in Solo, o \in Outcomes : InsertBatch(p, o)

ScraperMainSpec == ScraperMainInitial /\ [][ScraperMainNext]_vars

\* ------------------------------------------------------------- properties
\* the client calls of process p on a store with a given operation
Calls(p, store, op) == SelectSeq(io[p], LAMBDA e : e.store = store /\ e.op = op)

Writes(p) == SelectSeq(io[p], LAMBDA e : e.op \in {"bulk_write", "insert"})

Failed(p, store, op) == \E j \in DOMAIN io[p] :
    io[p][j].store = store /\ io[p][j].op = op /\ ~io[p][j].ok

Succeeded(p, store, op) == \E j \in DOMAIN io[p] :
    io[p][j].store = store /\ io[p][j].op = op /\ io[p][j].ok

\* the last row of d with url u
LastWith(d, u) == d[CHOOSE j \in DOMAIN d :
                       d[j].url = u /\ \A i \in DOMAIN d : d[i].url = u => i <= j]

Zero == Summary(0, 0)

\* C4: with check_across_dbs=True an article whose URL the existence check
\* found in MongoDB or in ClickHouse is written to neither store by that
\* call: no step of the call changes the documents or the rows of a URL in
\* existing_urls, no bulk write or insert is issued for it, and when every
\* URL of the batch was found the call issues no write and returns all-zero
\* counts.
C4_FoundUrlsAreNotWritten ==
    /\ [](\A p \in Solo :
            /\ \A j \in DOMAIN io[p] :
                  io[p][j].op \in {"bulk_write", "insert"}
                      => io[p][j].urls \cap existing_urls[p] = {}
            /\ (pc[p] = "returned" /\ ~articles[p].none
                    /\ UrlsOf(articles[p].rows) \subseteq existing_urls[p])
                  => result[p] = Zero /\ Writes(p) = <<>>)
    /\ [][\A p \in Solo, u \in URLs :
            (mongo'[u] # mongo[u] \/ ch'[u] # ch[u]) => u \notin existing_urls[p]]_vars

\* C4 happens: a call found one URL of its batch and wrote the other one
C4_Witness ==
    \E p \in Solo :
        /\ pc[p] = "returned"
        /\ existing_urls[p] # {}
        /\ Succeeded(p, "mongodb", "bulk_write")
        /\ Succeeded(p, "clickhouse", "insert")
        /\ UrlsOf(articles[p].rows) = URLs

\* C5 as stated: once a call that was given an article has returned without
\* a MongoDB error, the document stored for the article's URL carries the
\* field values of the latest article given for that URL.
C5_LastWriteWinsThroughPipeline ==
    \A p \in Solo :
        (pc[p] = "returned" /\ ~articles[p].none /\ ~Failed(p, "mongodb", "find")
            /\ ~Failed(p, "mongodb", "bulk_write"))
        => \A u \in UrlsOf(articles[p].rows) :
              mongo[u] # <<>> => mongo[u][1] = Doc(LastWith(articles[p].rows, u))

\* C5 amended: right after a bulk write of save_articles_to_db that completed,
\* the document stored for each URL of the written batch carries the field
\* values of the last article of that batch with that URL.
C5_LastWriteWinsInBulkWrite ==
    \A p \in Solo :
        (pc[p] = "save_clickhouse" /\ Succeeded(p, "mongodb", "bulk_write"))
        => \A u \in UrlsOf(df[p]) :
              mongo[u] # <<>> /\ mongo[u][1] = Doc(LastWith(df[p], u))

\* C5 amended happens: a completed bulk write replaced the values of a
\* document that was stored before
C5_Witness ==
    \E p \in Solo :
        /\ pc[p] = "save_clickhouse"
        /\ Succeeded(p, "mongodb", "bulk_write")
        /\ counts[p].modified > 0

\* C6 as stated: a bulk_write that failed has been reattempted by the time
\* the call gives the batch up.
C6_FailedBulkWriteIsRetried ==
    \A p \in Solo :
        (pc[p] \in {"save_clickhouse", "insert_batch", "returned"}
            /\ Failed(p, "mongodb", "bulk_write"))
        => Len(Calls(p, "mongodb", "bulk_write")) > 1

\* C6 amended: one call issues at most one bulk_write; after a bulk_write
\* that failed the call goes on to ClickHouse with a MongoDB count of 0.
C6_BulkWriteIsIssuedOnce ==
    \A p \in Solo :
        /\ Len(Calls(p, "mongodb", "bulk_write")) <= 1
        /\ Failed(p, "mongodb", "bulk_write")
              => /\ pc[p] \in {"save_clickhouse", "insert_batch", "returned"}
                 /\ counts[p].mongo_count = 0

\* C6 amended happens: a call whose bulk_write failed has returned
C6_Witness ==
    \E p \in Solo :
        /\ pc[p] = "returned"
        /\ Failed(p, "mongodb", "bulk_write")
        /\ Succeeded(p, "clickhouse", "insert")

\* the outcomes of the inserts of the batch at offset b, in order
Attempts(p, b) ==
    SelectSeq(io[p], LAMBDA e : e.op = "insert" /\ e.batch = b)

BatchOffsets(p) == {b \in 0..Len(articles[p].rows) : b % batch_size = 0}

\* C7: a batch insert is attempted at most retry_attempts times, only the
\* last attempt of a batch can be a successful one (no attempt follows a
\* success), and a batch the loop has left was attempted at least once.
C7_RetryLoopOfOneBatch ==
    \A p \in Solo : \A b \in BatchOffsets(p) :
        LET a == Attempts(p, b) IN
        /\ Len(a) <= retry_attempts
        /\ \A j \in DOMAIN a : a[j].ok => j = Len(a)
        /\ pc[p] = "insert_batch" /\ k[p] = b
              => Len(a) = attempt[p] /\ \A j \in DOMAIN a : ~a[j].ok
        /\ (pc[p] = "returned" /\ Succeeded(p, "clickhouse", "probe") /\ b < Len(df[p]))
              => /\ Len(a) >= 1
                 /\ ~a[Len(a)].ok => Len(a) = retry_attempts

\* C7 happens: a batch went in at its second attempt, after a failed one
C7_Witness ==
    \E p \in Solo :
        /\ pc[p] = "returned"
        /\ Len(Attempts(p, 0)) = 2
        /\ Attempts(p, 0)[2].ok

\* C10 as stated: the batch a scraper passes to save_articles_to_all_dbs holds
\* no two articles with the same URL.
C10_BatchIsDeduplicated ==
    \A p \in Procs :
        (pc[p] # "idle" /\ ~articles[p].none) => NoDuplicateUrls(articles[p].rows)

\* C1 as stated: the ClickHouse table holds at most one row per URL.
C1_OneRowPerUrl == \A u \in URLs : ch[u] <= 1

\* C2 as stated: the MongoDB collection holds at most one document per URL.
C2_OneDocumentPerUrl == \A u \in URLs : Len(mongo[u]) <= 1

\* C3 as stated: the URL offered in every run is eventually present in both
\* MongoDB and ClickHouse.
C3_EventuallyInBothStores == <>(mongo[Offered.url] # <<>> /\ ch[Offered.url] > 0)

Touched(p, store) == \E j \in DOMAIN io[p] : io[p][j].store = store

\* C8: every call returns a summary whose total is mongodb + clickhouse; the
\* summary of a call given an unconvertible input is all zero; the count of a
\* store that is disabled or whose save failed (the bulk write raised; the
\* table was not available or no batch insert succeeded) is 0.  Store errors
\* do not leave the call: a call in which a store call raised still returns.
C8_SummaryOnEveryPath ==
    \A p \in Solo : pc[p] = "returned" =>
        /\ result[p].mongodb = counts[p].mongo_count
        /\ result[p].clickhouse = counts[p].clickhouse_count
        /\ result[p].total = result[p].mongodb + result[p].clickhouse
        /\ articles[p].none => result[p] = Zero
        /\ (args[p].no_mongodb \/ Failed(p, "mongodb", "bulk_write"))
              => result[p].mongodb = 0
        /\ (args[p].no_clickhouse \/ ~use_ch(p) \/ Failed(p, "clickhouse", "probe")
                \/ ~Succeeded(p, "clickhouse", "insert"))
              => result[p].clickhouse = 0

\* C8 happens: both existence queries and the bulk write raised, the call
\* returned, and the summary counts the ClickHouse rows alone
C8_Witness ==
    \E p \in Solo :
        /\ pc[p] = "returned"
        /\ Failed(p, "mongodb", "find")
        /\ Failed(p, "clickhouse", "select")
        /\ Failed(p, "mongodb", "bulk_write")
        /\ result[p].mongodb = 0
        /\ result[p].clickhouse > 0
        /\ result[p].total = result[p].clickhouse

\* C9 as stated: a call with use_mongodb=False issues no call on MongoDB, and a
\* call with use_clickhouse=False or with USE_CLICKHOUSE set to something
\* other than 'true' issues no call on ClickHouse.
C9_DisabledStoreUntouched ==
    \A p \in Solo :
        /\ args[p].no_mongodb => ~Touched(p, "mongodb")
        /\ (args[p].no_clickhouse \/ environ[p] \notin {Unset, "true"})
              => ~Touched(p, "clickhouse")

\* C9 amended: USE_CLICKHOUSE disables ClickHouse when its lower-cased value
\* (default 'true') is not 'true'.  A process with MongoDB disabled issues no
\* call on MongoDB and the collection stays as it was; a process with
\* ClickHouse disabled issues no call on ClickHouse and the table stays as it
\* was.
C9_DisabledStoreUntouchedIgnoringCase ==
    \A p \in Solo :
        /\ args[p].no_mongodb
              => ~Touched(p, "mongodb") /\ mongo = [u \in URLs |-> <<>>]
        /\ (args[p].no_clickhouse \/ lower(environ_get(p, "true")) # "true")
              => /\ ~Touched(p, "clickhouse")
                 /\ ch = [u \in URLs |-> 0]
                 /\ probes = 0

\* C9 amended happens: with --no-clickhouse a call wrote its batch to MongoDB
\* and returned
C9_Witness ==
    \E p \in Solo :
        /\ pc[p] = "returned"
        /\ args[p].no_clickhouse
        /\ environ[p] = "TRUE"
        /\ Succeeded(p, "mongodb", "bulk_write")
        /\ result[p].mongodb > 0
        /\ ~Touched(p, "clickhouse")

\* ------------------------------------------------ properties: orchestrator
Returned(i, op) == opc[i] = "returned" /\ ocall[i].op = op

\* the processes started by start_script for script s that are running
Instances(s) == {pid \in alive : launched[pid] = s}

\* C11: start_script never launches a second instance of a scraper.  A call
\* that found a recorded PID whose process is alive returned False, launched
\* nothing and left processes.json as it was; and with the commands issued
\* one after the other, at most one process per script that start_script
\* started is alive.
C11_NoSecondInstance ==
    /\ \A s \in Scripts : Cardinality(Instances(s)) <= 1
    /\ \A i \in Invocations :
        (/\ Returned(i, "start_script")
         /\ ocall[i].script \in DOMAIN osnap[i].file
         /\ osnap[i].file[ocall[i].script].pid \in osnap[i].alive)
        => /\ oret[i] = FALSE
           /\ launched = osnap[i].launched
           /\ processes_json = osnap[i].file

\* a start_script that found its script running has returned, and the
\* process is still there
C11_Witness ==
    \E i \in Invocations :
        /\ Returned(i, "start_script")
        /\ ocall[i].script \in DOMAIN osnap[i].file
        /\ osnap[i].file[ocall[i].script].pid \in osnap[i].alive
        /\ Instances(ocall[i].script) # {}
        /\ Len(launched) >= 2

Quiescent == \A i \in Invocations : opc[i] \in {"idle", "returned"}

\* C12: the PID file tracks every scraper the orchestrator started.  Once
\* the commands of all invocations have returned, every running process
\* that start_script launched has its PID recorded under its script name in
\* processes.json.
C12_AliveScrapersAreTracked ==
    Quiescent =>
        \A pid \in alive :
            /\ launched[pid] \in DOMAIN processes_json
            /\ processes_json[launched[pid]].pid = pid

Sent(i, sig) == \E j \in DOMAIN osignals[i] :
                    osignals[i][j].sig = sig /\ osignals[i][j].delivered

AliveAfterGrace(i) == \E j \in DOMAIN osignals[i] :
                          osignals[i][j].sig = "0" /\ osignals[i][j].delivered

C14_PollingIsReadOnlyAndTotal ==
    \A i \in Invocations :
        (Returned(i, "check_scripts_status") \/ Returned(i, "update_status")) =>
            /\ processes_json = osnap[i].file
            /\ osignals[i] = <<>>
            /\ DOMAIN ostatus[i] = {s \in DOMAIN osnap[i].file : osnap[i].file[s].pid # 0}
            /\ \A s \in DOMAIN ostatus[i] :
                /\ ostatus[i][s].status \in {"running", "stopped", "not_found"}
                /\ ostatus[i][s].running <=> ostatus[i][s].status = "running"
                /\ ostatus[i][s].running => ostatus[i][s].pid \in osnap[i].alive
                /\ ostatus[i][s].pid = osnap[i].file[s].pid

\* a polling that reported one script running and another one not
C14_Witness ==
    \E i \in Invocations :
        /\ Returned(i, "update_status")
        /\ \E s, t \in DOMAIN ostatus[i] :
               ostatus[i][s].running /\ ostatus[i][t].status = "not_found"

\* ----------------------------------------------- properties: topics registry
\* C15: add_topic adds a new topic or updates the existing one.  The Topics
\* collection holds at most one document per stored query string.
C15_OneDocumentPerQuery ==
    \A i, j \in DOMAIN topics : topics[i].query = topics[j].query => i = j

\* C18: on_the_fly_search returns True if and only if at least one of the
\* two scraper subprocesses exits with code 0 within its timeout; it waits
\* for both, and one that times out is killed and counts as a failure.
C18_OnTheFlyResult ==
    fly.pc = "returned" =>
        /\ Len(fly.waited) = 2
        /\ fly.ret <=> \E n \in DOMAIN fly.waited : fly.waited[n] = "exit0"
        /\ fly.killed = {n \in DOMAIN fly.waited : fly.waited[n] = "timeout"}

\* the first subprocess exited with code 0, the second timed out and was
\* killed, and the search returned True
C18_Witness ==
    /\ fly.pc = "returned"
    /\ fly.waited = <<"exit0", "timeout">>
    /\ fly.ret

\* C19: on_the_fly_search adds the query as an 'ondemand' topic only if the
\* topic does not exist yet.  A topic that had the query before the search
\* has the same category, priority and active flag after it.
C19_ExistingTopicUntouched ==
    fly.pc # "idle" =>
        \A j \in DOMAIN fly.before :
            fly.before[j].query = fly.query =>
                /\ topics[j].category = fly.before[j].category
                /\ topics[j].priority = fly.before[j].priority
                /\ topics[j].active = fly.before[j].active

\* ---------------------------------------------- properties: sources registry
SamePair(d, site, rss_url) == d.site = site /\ d.RSS = rss_url

\* C16: the sources registry holds at most one source per (site, RSS) pair.
\* add_source for a pair that was there inserted nothing, changed nothing
\* and returned False; initialize_sources_collection inserted the default
\* sources only into a collection that did not exist, and changed nothing
\* otherwise.
C16_OneSourcePerPair ==
    /\ \A i, j \in DOMAIN sources :
           SamePair(sources[i], sources[j].site, sources[j].RSS) => i = j
    /\ (/\ scall.op = "add_source"
        /\ \E j \in DOMAIN ssnap : SamePair(ssnap[j], scall.site, scall.RSS))
       => sources = ssnap /\ sret = "False"
    /\ scall.op = "initialize_sources_collection"
       => sources = ssnap \/ (ssnap = <<>> /\ sources = default_sources)

\* add_source was refused for a pair added before the collection was
\* initialized, hence without the unique index
C16_Witness ==
    /\ scall.op = "add_source"
    /\ sret = "False"
    /\ ~sources_meta.unique
    /\ Len(sources) >= 2

\* --------------------------------------------- properties: scraper lifecycle
\* the script was asked for a single run: test mode, an on-the-fly query (a
\* script that takes one) or no-wait, on the command line or through the
\* environment
OneShotMode ==
    \/ largv.test \/ lenv.TEST_MODE = "1"
    \/ largv.no_wait \/ lenv.NO_WAIT = "1"
    \/ /\ largv.script # "WebSitesNews"
       /\ truthy(largv.query) \/ truthy(lenv.QUERY)

\* C17: a scraper script in one-shot mode runs main exactly once and exits
\* with status 0 if and only if main returned True.  In continuous mode it
\* does not exit by itself (only on Ctrl+C), and after a run whose main
\* returned False the loop is at its 30-second wait or in the next run.
C17_OneShotAndContinuous ==
    IF OneShotMode
    THEN /\ lpc \in {"start", "exited"}
         /\ lpc = "exited" =>
                /\ Len(lresults) = 1
                /\ exit_status = 0 <=> lresults[1]
                /\ exit_status \in {0, 1}
    ELSE /\ lpc = "exited" => exit_cause = "KeyboardInterrupt"
         /\ (lresults # <<>> /\ ~lresults[Len(lresults)] /\ exit_cause = "none")
                => lpc \in {"sleep", "run"}

\* a continuous run went on after a main that returned False
C17_Witness ==
    /\ ~OneShotMode
    /\ Len(lresults) = 3
    /\ ~lresults[2]
    /\ lpc = "sleep"

\* ----------------------------------------------------- properties: migration
\* C20: migrate_articles in test mode shows what would be migrated without
\* doing it.  During and after a test-mode run the ClickHouse database, its
\* table and the rows of the table are what they were when the run began.
C20_TestModeLeavesClickhouseAsItWas ==
    (mig.pc # "idle" /\ mig.test_mode) =>
        /\ schema = mig.before.schema
        /\ ch = mig.before.ch

\* ------------------------------------------- properties: the existence check
\* the stores check_urls_exist is asked to look into
MongoEnabled(p) == ~args[p].no_mongodb

ClickhouseEnabled(p) ==
    ~args[p].no_clickhouse /\ environ[p] \in {Unset, "true", "TRUE"}

\* the URLs of urls_to_check stored in an enabled store whose query succeeded
StoredWhereAsked(p) ==
    LET urls_to_check == UrlsOf(articles[p].rows)
    IN  (IF MongoEnabled(p) /\ Succeeded(p, "mongodb", "find")
         THEN {u \in urls_to_check : mongo[u] # <<>>} ELSE {})
        \cup
        (IF ClickhouseEnabled(p) /\ Succeeded(p, "clickhouse", "select")
         THEN {u \in urls_to_check : ch[u] > 0} ELSE {})

\* C21: check_urls_exist returns exactly the URLs of urls_to_check that are
\* stored in an enabled store whose query succeeded.  A store whose query
\* raised contributes no URL and the call goes on; a store that is not
\* enabled is not queried.
C21_CheckReturnsStoredUrls ==
    [][\A p \in Procs :
          (pc[p] = "check_clickhouse" /\ pc'[p] # "check_clickhouse") =>
              /\ existing_urls'[p] = StoredWhereAsked(p)'
              /\ pc'[p] \in {"bulk_write", "save_clickhouse", "returned"}
              /\ ~MongoEnabled(p) => Calls(p, "mongodb", "find")' = <<>>
              /\ ~ClickhouseEnabled(p) => Calls(p, "clickhouse", "select")' = <<>>]_vars

\* the MongoDB query of a check raised during an outage, the ClickHouse
\* query succeeded, and a URL stored in MongoDB only was reported as not
\* existing
C21_Witness ==
    \E p \in Procs :
        /\ pc[p] \in {"bulk_write", "save_clickhouse"}
        /\ Writes(p) = <<>>
        /\ Failed(p, "mongodb", "find")
        /\ Succeeded(p, "clickhouse", "select")
        /\ \E u \in UrlsOf(articles[p].rows) :
               mongo[u] # <<>> /\ u \notin existing_urls[p]

\* a call whose two existence queries succeeded and that had something to
\* save: the URLs of its batch were in neither store when it checked
FreshBatch(p) ==
    /\ pc[p] = "returned"
    /\ df[p] # <<>>
    /\ Succeeded(p, "mongodb", "find")
    /\ Succeeded(p, "clickhouse", "select")

\* C22 as stated: when the MongoDB save of a batch raises, the ClickHouse save
\* of the same batch is still attempted, and when the ClickHouse save fails
\* after MongoDB succeeded the MongoDB documents are kept; either way the
\* batch is left in exactly one store.
C22_BatchInExactlyOneStore ==
    \A p \in Solo : FreshBatch(p) =>
        /\ Failed(p, "mongodb", "bulk_write") => Calls(p, "clickhouse", "probe") # <<>>
        /\ (Failed(p, "mongodb", "bulk_write") /\ Succeeded(p, "clickhouse", "insert"))
              => \A u \in UrlsOf(df[p]) : ch[u] > 0 /\ mongo[u] = <<>>
        /\ (Succeeded(p, "mongodb", "bulk_write") /\ ~Succeeded(p, "clickhouse", "insert"))
              => \A u \in UrlsOf(df[p]) : mongo[u] # <<>> /\ ch[u] = 0

\* C22 as the code has it: when the MongoDB save of a batch raises, the
\* ClickHouse save of the same batch is still attempted, and when it succeeds
\* every article of the batch is in ClickHouse; when the ClickHouse save fails
\* after MongoDB succeeded every article of the batch is in MongoDB and in
\* MongoDB only.  Nothing is rolled back in either case: the documents the
\* ordered bulk write applied before it raised stay in MongoDB, so the batch
\* is in at least the healthy store, not in exactly one.
C22_HealthyStoreCommits ==
    \A p \in Solo : FreshBatch(p) =>
        /\ Failed(p, "mongodb", "bulk_write") => Calls(p, "clickhouse", "probe") # <<>>
        /\ (Failed(p, "mongodb", "bulk_write") /\ Succeeded(p, "clickhouse", "insert"))
              => \A u \in UrlsOf(df[p]) : ch[u] > 0
        /\ (Succeeded(p, "mongodb", "bulk_write") /\ ~Succeeded(p, "clickhouse", "insert"))
              => \A u \in UrlsOf(df[p]) : mongo[u] # <<>> /\ ch[u] = 0

\* C22 happens: the bulk write raised at its second operation, the ClickHouse
\* save of the batch succeeded, and the first article is in both stores
C22_Witness ==
    \E p \in Solo :
        /\ FreshBatch(p)
        /\ Failed(p, "mongodb", "bulk_write")
        /\ Succeeded(p, "clickhouse", "insert")
        /\ \E u, v \in UrlsOf(df[p]) :
               /\ mongo[u] # <<>> /\ ch[u] > 0
               /\ mongo[v] = <<>> /\ ch[v] > 0

\* C25 as stated: check_table_availability leaves the table as it found it:
\* whenever it has returned, True or False, and also when the delete
\* statement failed after the probe insert succeeded, no
\* 'test://availability_check/...' probe row remains in the ClickHouse table.
C25_NoProbeRowRemains ==
    \A p \in Solo : Calls(p, "clickhouse", "probe") # <<>> => probes = 0

\* ------------------------------ properties: save_articles_to_clickhouse
\* the rows at position j of the lists the inserts of the call were given
Submitted(j) == {sv.inserts[e].rows[j - sv.inserts[e].i] :
                    e \in {x \in DOMAIN sv.inserts :
                              j - sv.inserts[x].i \in DOMAIN sv.inserts[x].rows}}

SaveOffsets == {i \in 0..(Len(sv.new_articles) - 1) : i % sv.batch_size = 0}

AttemptsOf(i) == {e \in DOMAIN sv.inserts : sv.inserts[e].i = i}

InsertedAt(i) == \E e \in AttemptsOf(i) : sv.inserts[e].ok

\* the sum of the sizes of the lists whose insert succeeded
InsertedRows ==
    LET F[j \in 0..Len(sv.inserts)] ==
            IF j = 0 THEN 0
            ELSE F[j - 1] + (IF sv.inserts[j].ok THEN Len(sv.inserts[j].rows) ELSE 0)
    IN  F[Len(sv.inserts)]

\* C24: a batch that fails all retry_attempts attempts is skipped without
\* aborting the call: once the call has returned from the loop every batch
\* was attempted, a batch whose insert never succeeded exactly retry_attempts
\* times and a batch whose insert succeeded not again after the success, and
\* the returned total_inserted is the sum of the sizes of the batches whose
\* insert succeeded.
C24_FailedBatchIsSkipped ==
    (sv.pc = "returned" /\ sv.new_articles # <<>>) =>
        /\ \A i \in SaveOffsets :
              /\ AttemptsOf(i) # {}
              /\ Cardinality(AttemptsOf(i)) <= retry_attempts
              /\ ~InsertedAt(i) => Cardinality(AttemptsOf(i)) = retry_attempts
              /\ \A e \in AttemptsOf(i) :
                    sv.inserts[e].ok => \A f \in AttemptsOf(i) : f <= e
        /\ \A e \in DOMAIN sv.inserts : sv.inserts[e].i \in SaveOffsets
        /\ sv.ret = InsertedRows

\* C24 happens: a batch failed all its attempts, a later batch was inserted,
\* and the call returned the size of what was inserted
C24_Witness ==
    /\ sv.pc = "returned"
    /\ sv.ret > 0
    /\ \E i, j \in SaveOffsets :
          /\ i < j
          /\ ~InsertedAt(i)
          /\ Cardinality(AttemptsOf(i)) = retry_attempts
          /\ InsertedAt(j)

\* -------------------------------------------- properties: scraper main()
\* the search of topic t is over
Searched(t) == t < run.t \/ run.pc \in {"process", "saving", "returned"}

\* C26: for each topic a run makes at most search_attempts searches (3 in
\* DuckDuckGoApiNews, 5 in GNewsApiNews); it goes on searching only while
\* every attempt so far was empty or raised, so it stops at the first
\* non-empty result list; what it processes and hands to
\* save_articles_to_all_dbs is the list of that one attempt; when every
\* attempt was empty or raised all the attempts were made, nothing is handed
\* over for the topic, and the run does not end there: a run that returned
\* True went through all its topics and a run that returned False ended at a
\* topic whose search had found something.
C26_SearchAttempts ==
    \A p \in Solo :
        /\ \A t \in DOMAIN run.attempts :
              /\ run.attempts[t] <= search_attempts(script[p])
              /\ (t = run.t /\ run.pc = "search") =>
                    /\ run.found[t] = <<>>
                    /\ run.last \in {"none", "raise", "empty"}
                    /\ run.attempts[t] = run.attempt
                    /\ run.attempts[t] < search_attempts(script[p])
              /\ Searched(t) =>
                    /\ run.attempts[t] >= 1
                    /\ run.found[t] = <<>> =>
                          /\ run.attempts[t] = search_attempts(script[p])
                          /\ run.handed[t] = NoneValue
                    /\ ~run.handed[t].none =>
                          run.handed[t] = Batch(script[p], run.found[t])
              /\ t = run.t => run.articles = run.found[t]
        /\ run.pc = "saving" => articles[p] = run.handed[run.t]
        /\ run.pc \in {"idle", "search", "process"} => pc[p] \in {"idle", "returned"}
        /\ run.ret = "True" => run.t = Len(run.topics)
        /\ run.ret = "False" => run.found[run.t] # <<>>

\* C26 happens: a GNewsApiNews run of two topics; the five searches of the
\* first all failed and nothing was saved for it, the second search of the
\* second topic found articles, and they are in both stores
C26_Witness ==
    \E p \in Solo :
        /\ script[p] = "GNewsApiNews"
        /\ run.pc = "returned"
        /\ run.ret = "True"
        /\ Len(run.topics) = 2
        /\ run.attempts = <<5, 2>>
        /\ run.handed[1] = NoneValue
        /\ ~run.handed[2].none
        /\ \A u \in UrlsOf(run.handed[2].rows) : mongo[u] # <<>> /\ ch[u] > 0

\* ------------------------------------ properties: topics and legacy queries
\* C27 as stated: after any sequence of add_topic and remove_topic calls with
\* non-blank queries, a query string is stored in the Topics collection if
\* and only if the same string is stored in the Queries collection.
C27_TopicsAndQueriesInStep ==
    \A q \in QueryStrings :
        (\E j \in DOMAIN topics : topics[j].query = q) <=> q \in queries
====
